---- MODULE Spec2Model ----
(***************************************************************************)
(* A model of the assessment pipeline of shared_ai_utils:                  *)
(*   pattern_checks (the scanner and the penalty), AssessmentEngine        *)
(*   (engine.py), the Code Quality analysis of HeuristicScorer             *)
(*   (scorers/heuristic.py) and CouncilAdapter (scorers/council_adapter.py)*)
(*                                                                         *)
(* Numbers.  Python floats are held exactly: a score produced by a         *)
(* battery is an integer, a weight, confidence or strength with two        *)
(* decimals is held in hundredths (0.3 is 30, 0.85 is 85), and a quotient  *)
(* is a reduced fraction [n, d].  Rounding of binary floating point is not *)
(* modelled.                                                               *)
(*                                                                         *)
(* Text.  A text is the sequence of its lines (str.split("\n")).  A line   *)
(* is held by what the scorers read of it: the keywords that occur in it   *)
(* as substrings, in the case they are written in (kws), its length in     *)
(* characters (chars), its number of "print(" (prints) and of comment      *)
(* markers "#", "//", "/*" (marks), whether it is blank or starts with "#" *)
(* once stripped (blank, hash), and the regular expressions of the pattern *)
(* rules that re.search finds in it (hits).                                *)
(***************************************************************************)
EXTENDS Integers, Sequences, FiniteSets, TLC

VARIABLES
    engine,     \* the AssessmentEngine instance (its attributes)
    input,      \* the AssessmentInput the caller holds
    result,     \* what the last assess() on `input` returned, or NoResult
    memo,       \* an earlier (input, result) pair the caller kept, or NoMemo
    council,    \* the CouncilAdapter instance (its attributes)
    insights,   \* what the last get_insights() returned (None: NoInsights)
    pen,        \* a caller of calculate_pattern_penalty: arguments and returns
    agg,        \* the last call of a helper function: arguments and returns
    tasks,      \* the assess() coroutines of one event loop: their local variables
    clock,      \* time.time() in ms, as the coroutines read it
    heap        \* the instances of the other managers: their attributes

vars == <<engine, input, result, memo, council, insights, pen, agg, tasks, clock, heap>>

\* no instance of the other managers exists
NoHeap == << >>

----------------------------------------------------------------------------
(* Bounds *)

MaxViolations == 2
MaxPaths == 2
MaxMetrics == 2
MaxClock == 1
MaxTasks == 2

----------------------------------------------------------------------------
(* Exact arithmetic for Python's float sums and quotients *)

Min(a, b) == IF a <= b THEN a ELSE b
Max(a, b) == IF a >= b THEN a ELSE b
Abs(a) == IF a < 0 THEN -a ELSE a

RECURSIVE GCD(_, _)
GCD(a, b) == IF b = 0 THEN a ELSE GCD(b, a % b)

\* the fraction n/d (d # 0), reduced, with a positive denominator
Rat(n, d) ==
    LET g == GCD(Abs(n), Abs(d))
        s == IF d < 0 THEN -1 ELSE 1
    IN  [n |-> (s * n) \div g, d |-> (s * d) \div g]

RatInt(k) == [n |-> k, d |-> 1]
RatAdd(x, y) == Rat(x.n * y.d + y.n * x.d, x.d * y.d)
RatDivInt(x, k) == Rat(x.n, x.d * k)
RatLeq(x, y) == x.n * y.d <= y.n * x.d
RatLess(x, y) == x.n * y.d < y.n * x.d

RECURSIVE RatSum(_)
RatSum(s) == IF s = <<>> THEN RatInt(0) ELSE RatAdd(Head(s), RatSum(Tail(s)))

RECURSIVE IntSum(_)
IntSum(s) == IF s = <<>> THEN 0 ELSE Head(s) + IntSum(Tail(s))

Range(s) == {s[i] : i \in 1..Len(s)}

\* the sequences over S of length at most n
SeqsUpTo(S, n) == UNION {[1..k -> S] : k \in 0..n}

----------------------------------------------------------------------------
(* pattern_checks.py *)

\* dict.get(key, default)
Get(d, key, default) == IF key \in DOMAIN d THEN d[key] ELSE default

\* the loop of calculate_pattern_penalty from position i on: the total
RECURSIVE PenaltyLoop(_, _, _, _, _)
PenaltyLoop(violations, i, seen, total_penalty, severity_weights) ==
    IF i > Len(violations) THEN total_penalty
    ELSE IF violations[i].pattern \in seen
         THEN PenaltyLoop(violations, i + 1, seen, total_penalty, severity_weights)
         ELSE PenaltyLoop(violations, i + 1, seen \cup {violations[i].pattern},
                          total_penalty + Get(severity_weights, violations[i].severity, 0),
                          severity_weights)

\* mutant: the total is assigned, not accumulated
RECURSIVE PenaltyLoop_assign(_, _, _, _, _)
PenaltyLoop_assign(violations, i, seen, total_penalty, severity_weights) ==
    IF i > Len(violations) THEN total_penalty
    ELSE IF violations[i].pattern \in seen
         THEN PenaltyLoop_assign(violations, i + 1, seen, total_penalty, severity_weights)
         ELSE PenaltyLoop_assign(violations, i + 1, seen \cup {violations[i].pattern},
                                 Get(severity_weights, violations[i].severity, 0),
                                 severity_weights)

\* mutant: every violation is counted, the seen set is not consulted
calculate_pattern_penalty_nodedup(violations, severity_weights, max_penalty) ==
    Min(IntSum([i \in 1..Len(violations) |->
                    Get(severity_weights, violations[i].severity, 0)]),
        max_penalty)

\* mutant: the total is assigned, not accumulated
calculate_pattern_penalty_assign(violations, severity_weights, max_penalty) ==
    Min(PenaltyLoop_assign(violations, 1, {}, 0, severity_weights), max_penalty)

calculate_pattern_penalty(violations, severity_weights, max_penalty) ==
    Min(PenaltyLoop(violations, 1, {}, 0, severity_weights), max_penalty)

(* The callers' arguments *)

PatternNames == {"specific_exceptions", "structured_logging"}
Severities == {"low", "medium", "info"}
Violations == [pattern : PatternNames, line : {1}, severity : Severities]
ViolationLists == SeqsUpTo(Violations, MaxViolations)

WeightValues == {-3, 0, 1, 3}
DefaultWeights ==
    [s \in {"low", "medium", "high", "critical"} |->
        CASE s = "low" -> 1 [] s = "medium" -> 3 [] OTHER -> 5]
WeightTables == {DefaultWeights, << >>} \cup [{"low", "medium"} -> WeightValues]
MaxPenalties == {0, 4, 15}

PenIdle ==
    [violations |-> << >>, weights |-> << >>, max_penalty |-> 0,
     called |-> FALSE, ret |-> 0, extended |-> FALSE, prev |-> 0]

\* penalty(violations): the caller calls calculate_pattern_penalty
PenaltyCall ==
    /\ ~pen.called
    /\ pen' = [pen EXCEPT !.called = TRUE,
                          !.ret = calculate_pattern_penalty(pen.violations, pen.weights,
                                                            pen.max_penalty)]
    /\ UNCHANGED <<engine, input, result, memo, council, insights, agg, tasks, clock, heap>>

\* penalty(violations + [v]): the caller adds a violation and calls again
PenaltyExtend ==
    /\ pen.called
    /\ ~pen.extended
    /\ \E v \in Violations :
          LET L == Append(pen.violations, v)
          IN  pen' = [pen EXCEPT !.violations = L,
                                 !.extended = TRUE,
                                 !.prev = pen.ret,
                                 !.ret = calculate_pattern_penalty(L, pen.weights,
                                                                   pen.max_penalty)]
    /\ UNCHANGED <<engine, input, result, memo, council, insights, agg, tasks, clock, heap>>

----------------------------------------------------------------------------
(* Texts *)

\* str.lower() on the keywords a line holds
Lower(s) ==
    CASE s = "Consider" -> "consider"
      [] s = "Error" -> "error"
      [] s = "Explore" -> "explore"
      [] s = "Optimize" -> "optimize"
      [] s = "Pattern" -> "pattern"
      [] s = "TODO" -> "todo"
      [] s = "Think" -> "think"
      [] s = "Value" -> "value"
      [] OTHER -> s

\* text.lower()
LowerText(text) == [i \in 1..Len(text) |-> [text[i] EXCEPT !.kws = {Lower(s) : s \in @}]]

\* `word in line`
InLine(word, line) == word \in line.kws

\* `word in text`
In(word, text) == \E i \in 1..Len(text) : InLine(word, text[i])

\* any(word in text for word in words)
AnyIn(words, text) == \E w \in words : In(w, text)

\* len(text): the characters of the lines and the newlines between them
LenText(text) == IntSum([i \in 1..Len(text) |-> text[i].chars]) + Len(text) - 1

\* text.count("print(")
CountPrints(text) == IntSum([i \in 1..Len(text) |-> text[i].prints])

\* text.count("#") + text.count("//") + text.count("/*")
CountMarks(text) == IntSum([i \in 1..Len(text) |-> text[i].marks])

\* "\n".join(parts): the lines of the parts, one after the other
RECURSIVE Join(_)
Join(parts) == IF parts = << >> THEN << >> ELSE Head(parts) \o Join(Tail(parts))

(* Concrete submissions *)

\* "def hello():\n    return 'world'"   (tests/unit/test_assessment.py)
HelloText ==
    << [kws |-> {"def "}, chars |-> 12, prints |-> 0, marks |-> 0, blank |-> FALSE, hash |-> FALSE, hits |-> {}],
       [kws |-> {}, chars |-> 18, prints |-> 0, marks |-> 0, blank |-> FALSE, hash |-> FALSE, hits |-> {}] >>

\* an 18-line module: imports, a class with a docstring, try/except, assert, a test
RichText ==
    << [kws |-> {"import "}, chars |-> 11, prints |-> 0, marks |-> 0, blank |-> FALSE, hash |-> FALSE, hits |-> {}],
       [kws |-> {"from ", "import "}, chars |-> 23, prints |-> 0, marks |-> 0, blank |-> FALSE, hash |-> FALSE, hits |-> {}],
       [kws |-> {}, chars |-> 0, prints |-> 0, marks |-> 0, blank |-> TRUE, hash |-> FALSE, hits |-> {}],
       [kws |-> {"class "}, chars |-> 13, prints |-> 0, marks |-> 0, blank |-> FALSE, hash |-> FALSE, hits |-> {}],
       [kws |-> {"\"\"\"", "Optimize", "algorithm"}, chars |-> 40, prints |-> 0, marks |-> 0, blank |-> FALSE, hash |-> FALSE, hits |-> {}],
       [kws |-> {}, chars |-> 0, prints |-> 0, marks |-> 0, blank |-> TRUE, hash |-> FALSE, hits |-> {}],
       [kws |-> {"data", "def "}, chars |-> 24, prints |-> 0, marks |-> 0, blank |-> FALSE, hash |-> FALSE, hits |-> {}],
       [kws |-> {"TODO", "analyze", "complexity"}, chars |-> 34, prints |-> 0, marks |-> 1, blank |-> FALSE, hash |-> TRUE, hits |-> {}],
       [kws |-> {"try:"}, chars |-> 12, prints |-> 0, marks |-> 0, blank |-> FALSE, hash |-> FALSE, hits |-> {}],
       [kws |-> {"data", "result", "step"}, chars |-> 36, prints |-> 0, marks |-> 0, blank |-> FALSE, hash |-> FALSE, hits |-> {}],
       [kws |-> {"Error", "Value", "except"}, chars |-> 26, prints |-> 0, marks |-> 0, blank |-> FALSE, hash |-> FALSE, hits |-> {}],
       [kws |-> {"result"}, chars |-> 25, prints |-> 0, marks |-> 0, blank |-> FALSE, hash |-> FALSE, hits |-> {}],
       [kws |-> {"assert", "result"}, chars |-> 33, prints |-> 0, marks |-> 0, blank |-> FALSE, hash |-> FALSE, hits |-> {}],
       [kws |-> {"result"}, chars |-> 21, prints |-> 0, marks |-> 0, blank |-> FALSE, hash |-> FALSE, hits |-> {}],
       [kws |-> {}, chars |-> 0, prints |-> 0, marks |-> 0, blank |-> TRUE, hash |-> FALSE, hits |-> {}],
       [kws |-> {"def ", "test"}, chars |-> 15, prints |-> 0, marks |-> 0, blank |-> FALSE, hash |-> FALSE, hits |-> {}],
       [kws |-> {"else", "if "}, chars |-> 34, prints |-> 0, marks |-> 0, blank |-> FALSE, hash |-> FALSE, hits |-> {}],
       [kws |-> {}, chars |-> 0, prints |-> 0, marks |-> 0, blank |-> TRUE, hash |-> FALSE, hits |-> {}] >>

\* six lines "print(item)  # debug"
PrintsText ==
    [i \in 1..6 |->
       [kws |-> {"item"}, chars |-> 20, prints |-> 1, marks |-> 1, blank |-> FALSE, hash |-> FALSE, hits |-> {"rx_print"}]]

\* three lines of prose: "Consider an alternative approach to the design." ...
EssayText ==
    << [kws |-> {"Consider", "alternative", "approach", "design"}, chars |-> 47, prints |-> 0, marks |-> 0, blank |-> FALSE, hash |-> FALSE, hits |-> {}],
       [kws |-> {"Pattern", "comment", "document", "module"}, chars |-> 56, prints |-> 0, marks |-> 0, blank |-> FALSE, hash |-> FALSE, hits |-> {}],
       [kws |-> {"Explore", "Think", "break", "down", "logic", "step", "team"}, chars |-> 81, prints |-> 0, marks |-> 0, blank |-> FALSE, hash |-> FALSE, hits |-> {}] >>

\* str({"notes": "error budget", "n": 42})
UnknownRepr ==
    << [kws |-> {"error"}, chars |-> 34, prints |-> 0, marks |-> 0, blank |-> FALSE, hash |-> FALSE, hits |-> {}] >>

\* "import os"
ListItem1 ==
    << [kws |-> {"import "}, chars |-> 9, prints |-> 0, marks |-> 0, blank |-> FALSE, hash |-> FALSE, hits |-> {}] >>

\* "value = data[0]"
ListItem2 ==
    << [kws |-> {"data", "value"}, chars |-> 15, prints |-> 0, marks |-> 0, blank |-> FALSE, hash |-> FALSE, hits |-> {"rx_index0"}] >>

NoRepr == << >>

\* the text "": one line without a character
EmptyLine ==
    << [kws |-> {}, chars |-> 0, prints |-> 0, marks |-> 0, blank |-> TRUE, hash |-> FALSE, hits |-> {}] >>

Str(text) == [kind |-> "str", text |-> text]
List(items) == [kind |-> "list", items |-> items]

\* content mappings: `map` is the dict, `repr` is str(content) where the engine needs it
Contents ==
    { [map |-> [k \in {"code"} |-> Str(HelloText)], repr |-> NoRepr],
      [map |-> [k \in {"code"} |-> Str(RichText)], repr |-> NoRepr],
      [map |-> [k \in {"code"} |-> Str(PrintsText)], repr |-> NoRepr],
      [map |-> [k \in {"text"} |-> Str(EssayText)], repr |-> NoRepr],
      [map |-> [k \in {"code", "solution"} |->
                   IF k = "code" THEN List(<<ListItem1, ListItem2>>) ELSE Str(EssayText)],
       repr |-> NoRepr],
      [map |-> [k \in {"notes", "n"} |-> [kind |-> "other"]], repr |-> UnknownRepr] }

----------------------------------------------------------------------------
(* assessment/models.py: the value records *)

PathType == {"technical", "design", "collaboration", "problem_solving"}

Evidence(type, description, source, weight) ==
    [type |-> type, description |-> description, source |-> source, weight |-> weight]

ScoringMetric(name, category, score, weight, evidence, explanation, confidence) ==
    [name |-> name, category |-> category, score |-> score, weight |-> weight,
     evidence |-> evidence, explanation |-> explanation, confidence |-> confidence]

MicroMotive(motive_type, strength, indicators, evidence, path_alignment) ==
    [motive_type |-> motive_type, strength |-> strength, indicators |-> indicators,
     evidence |-> evidence, path_alignment |-> path_alignment]

PathScore(path, overall_score, metrics, motives, strengths, areas_for_improvement) ==
    [path |-> path, overall_score |-> overall_score, metrics |-> metrics,
     motives |-> motives, strengths |-> strengths,
     areas_for_improvement |-> areas_for_improvement]

----------------------------------------------------------------------------
(* engine.py: content analysis helpers *)

KnownKeys == <<"code", "text", "content", "solution", "submission">>

\* the loop of _extract_text_content over the common keys, from the i-th on
RECURSIVE TextParts(_, _)
TextParts(content, i) ==
    IF i > Len(KnownKeys) THEN << >>
    ELSE LET key == KnownKeys[i]
             here == IF key \in DOMAIN content
                     THEN IF content[key].kind = "str" THEN <<content[key].text>>
                          ELSE IF content[key].kind = "list" THEN content[key].items
                          ELSE << >>
                     ELSE << >>
         IN  here \o TextParts(content, i + 1)

\* mutant: a mapping without a usable key gives the empty text, not str(content)
_extract_text_content_nostr(content) ==
    LET text_parts == TextParts(content.map, 1)
    IN  Join(IF text_parts = << >> THEN <<EmptyLine>> ELSE text_parts)

_extract_text_content(content) ==
    LET text_parts == TextParts(content.map, 1)
    IN  Join(IF text_parts = << >> THEN <<content.repr>> ELSE text_parts)

\* min(100.0, max(0.0, score))
Clamp(score) == Min(100, Max(0, score))

Bonus(cond, points) == IF cond THEN points ELSE 0

\* mutant: the length bonus is given from the second line on
_analyze_code_quality_anylength(text) ==
    LET text_lower == LowerText(text)
        score == 50
            + Bonus(In("def ", text) \/ In("function ", text) \/ In("class ", text), 10)
            + Bonus(In("import ", text) \/ In("from ", text), 5)
            + Bonus(In("try:", text) \/ In("except", text), 10)
            + Bonus(In("test", text_lower) \/ In("assert", text_lower), 10)
            + Bonus(Len(text) > 1, 5)
            - Bonus(CountPrints(text) > 5, 5)
            - Bonus(In("todo", text_lower) \/ In("fixme", text_lower), 3)
    IN  Clamp(score)

_analyze_code_quality(text) ==
    LET text_lower == LowerText(text)
        score == 50
            + Bonus(In("def ", text) \/ In("function ", text) \/ In("class ", text), 10)
            + Bonus(In("import ", text) \/ In("from ", text), 5)
            + Bonus(In("try:", text) \/ In("except", text), 10)
            + Bonus(In("test", text_lower) \/ In("assert", text_lower), 10)
            + Bonus(Len(text) > 10, 5)
            - Bonus(CountPrints(text) > 5, 5)
            - Bonus(In("todo", text_lower) \/ In("fixme", text_lower), 3)
    IN  Clamp(score)

_generate_code_quality_evidence(text) ==
    (IF In("def ", text) \/ In("function ", text)
     THEN <<Evidence("code_quality", "Code uses functions/methods for organization",
                     "code_structure", 70)>>
     ELSE << >>)
    \o
    (IF In("try:", text) \/ In("except", text)
     THEN <<Evidence("code_quality", "Error handling present in code",
                     "error_handling", 80)>>
     ELSE << >>)

_explain_code_quality(score) ==
    IF score >= 80 THEN "Code demonstrates strong quality with good structure and practices"
    ELSE IF score >= 60 THEN "Code shows solid fundamentals with room for improvement"
    ELSE "Code quality could be enhanced with better structure and practices"

_analyze_problem_solving(text) ==
    LET text_lower == LowerText(text)
        score == 50
            + Bonus(AnyIn({"algorithm", "complexity", "optimize", "efficient"}, text_lower), 15)
            + Bonus(AnyIn({"loop", "iterate", "recursion"}, text_lower), 10)
            + Bonus(In("if ", text) \/ In("else", text), 5)
    IN  Clamp(score)

_generate_problem_solving_evidence(text) ==
    LET text_lower == LowerText(text)
    IN  IF In("optimize", text_lower) \/ In("efficient", text_lower)
        THEN <<Evidence("code_quality", "Shows awareness of optimization",
                        "code_analysis", 70)>>
        ELSE << >>

_explain_problem_solving(score) ==
    IF score >= 75 THEN "Demonstrates strong problem-solving with clear approach"
    ELSE IF score >= 55 THEN "Shows good problem-solving fundamentals"
    ELSE "Problem-solving approach could be more systematic"

_analyze_testing(text) ==
    LET text_lower == LowerText(text)
        score == 30
            + Bonus(In("test", text_lower), 20)
            + Bonus(In("assert", text_lower), 15)
            + Bonus(In("mock", text_lower) \/ In("stub", text_lower), 10)
    IN  Clamp(score)

_generate_testing_evidence(text) ==
    IF In("test", LowerText(text))
    THEN <<Evidence("testing", "Testing mentioned or present", "code_analysis", 60)>>
    ELSE << >>

_explain_testing(score) ==
    IF score >= 70 THEN "Good testing awareness and practices"
    ELSE IF score >= 40 THEN "Some testing present but could be more comprehensive"
    ELSE "Testing approach needs development"

_analyze_architecture(text) ==
    LET text_lower == LowerText(text)
        score == 50
            + Bonus(In("class ", text) \/ In("module", text_lower), 15)
            + Bonus(In("pattern", text_lower) \/ In("design", text_lower), 10)
    IN  Clamp(score)

_generate_architecture_evidence(text) ==
    IF In("class ", text)
    THEN <<Evidence("architecture", "Object-oriented structure present",
                    "code_structure", 70)>>
    ELSE << >>

_explain_architecture(score) ==
    IF score >= 75 THEN "Well-structured architecture with clear organization"
    ELSE IF score >= 55 THEN "Good architectural awareness"
    ELSE "Architecture could be more structured"

_analyze_design_thinking(text) ==
    LET text_lower == LowerText(text)
        score == 50
            + Bonus(AnyIn({"consider", "think", "approach", "design"}, text_lower), 15)
            + Bonus(In("alternative", text_lower) \/ In("option", text_lower), 10)
    IN  Clamp(score)

_generate_design_thinking_evidence(text) ==
    LET text_lower == LowerText(text)
    IN  IF In("consider", text_lower) \/ In("think", text_lower)
        THEN <<Evidence("architecture", "Shows thoughtful design consideration",
                        "content_analysis", 60)>>
        ELSE << >>

_explain_design_thinking(score) ==
    IF score >= 70 THEN "Demonstrates strong design thinking"
    ELSE IF score >= 50 THEN "Shows good design awareness"
    ELSE "Design thinking could be more explicit"

\* comment_ratio > len(text) / 50, both sides times 50
_analyze_documentation(text) ==
    LET comment_ratio == CountMarks(text)
        score == 40
            + Bonus(comment_ratio * 50 > LenText(text), 20)
            + Bonus(In("\"\"\"", text) \/ In("'''", text), 15)
    IN  Clamp(score)

_generate_documentation_evidence(text) ==
    IF In("\"\"\"", text) \/ In("'''", text)
    THEN <<Evidence("documentation", "Docstrings present in code", "code_analysis", 70)>>
    ELSE << >>

_explain_documentation(score) ==
    IF score >= 70 THEN "Good documentation practices demonstrated"
    ELSE IF score >= 50 THEN "Some documentation present"
    ELSE "Documentation could be improved"

\* meaningful_names > len(lines) / 10, both sides times 10
_analyze_readability(text) ==
    LET lines == LowerText(text)
        meaningful_names ==
            Cardinality({i \in 1..Len(lines) :
                \E word \in {"name", "value", "result", "data", "item"} :
                    InLine(word, lines[i])})
        score == 60 + Bonus(meaningful_names * 10 > Len(lines), 15)
    IN  Clamp(score)

_generate_readability_evidence(text) ==
    <<Evidence("code_quality", "Code structure analyzed for readability",
               "code_analysis", 60)>>

_explain_readability(score) ==
    IF score >= 70 THEN "Code is readable and well-structured"
    ELSE IF score >= 55 THEN "Code readability is acceptable"
    ELSE "Code readability could be improved"

_analyze_analytical_thinking(text) ==
    LET text_lower == LowerText(text)
        score == 50
            + Bonus(AnyIn({"analyze", "analysis", "break", "down", "step"}, text_lower), 15)
            + Bonus(In("logic", text_lower) \/ In("reasoning", text_lower), 10)
    IN  Clamp(score)

_generate_analytical_evidence(text) ==
    LET text_lower == LowerText(text)
    IN  IF In("analyze", text_lower) \/ In("break", text_lower)
        THEN <<Evidence("code_quality", "Shows analytical approach",
                        "content_analysis", 60)>>
        ELSE << >>

_explain_analytical_thinking(score) ==
    IF score >= 70 THEN "Strong analytical thinking demonstrated"
    ELSE IF score >= 50 THEN "Good analytical approach"
    ELSE "Analytical thinking could be more explicit"

----------------------------------------------------------------------------
(* engine.py: metrics, motives and aggregation *)

\* path.value.title()
Title(path) ==
    CASE path = "technical" -> "Technical"
      [] path = "design" -> "Design"
      [] path = "collaboration" -> "Collaboration"
      [] path = "problem_solving" -> "Problem_Solving"
      [] path = "communication" -> "Communication"
      [] OTHER -> path

\* f"{a}{b}": the pieces of a formatted string, in order
Fmt(a, b) == <<a, b>>

\* mutant: no basic metric is appended when the battery yields none
_generate_metrics_for_path_nofallback(path, input_data) ==
    LET submission_text == _extract_text_content(input_data.content)
        code_quality_score == _analyze_code_quality(submission_text)
        problem_solving_score == _analyze_problem_solving(submission_text)
        testing_score == _analyze_testing(submission_text)
        architecture_score == _analyze_architecture(submission_text)
        design_thinking_score == _analyze_design_thinking(submission_text)
        documentation_score == _analyze_documentation(submission_text)
        readability_score == _analyze_readability(submission_text)
        analytical_score == _analyze_analytical_thinking(submission_text)
        metrics ==
            CASE path = "technical" ->
                   << ScoringMetric("Code Quality", "technical", code_quality_score, 30,
                                    _generate_code_quality_evidence(submission_text),
                                    _explain_code_quality(code_quality_score), 85),
                      ScoringMetric("Problem Solving", "technical", problem_solving_score, 30,
                                    _generate_problem_solving_evidence(submission_text),
                                    _explain_problem_solving(problem_solving_score), 80),
                      ScoringMetric("Testing", "technical", testing_score, 20,
                                    _generate_testing_evidence(submission_text),
                                    _explain_testing(testing_score), 75) >>
              [] path = "design" ->
                   << ScoringMetric("Architecture", "design", architecture_score, 40,
                                    _generate_architecture_evidence(submission_text),
                                    _explain_architecture(architecture_score), 80),
                      ScoringMetric("Design Thinking", "design", design_thinking_score, 30,
                                    _generate_design_thinking_evidence(submission_text),
                                    _explain_design_thinking(design_thinking_score), 75) >>
              [] path = "collaboration" ->
                   << ScoringMetric("Documentation", "collaboration", documentation_score, 30,
                                    _generate_documentation_evidence(submission_text),
                                    _explain_documentation(documentation_score), 80),
                      ScoringMetric("Code Readability", "collaboration", readability_score, 35,
                                    _generate_readability_evidence(submission_text),
                                    _explain_readability(readability_score), 85) >>
              [] path = "problem_solving" ->
                   << ScoringMetric("Analytical Thinking", "problem_solving", analytical_score,
                                    30, _generate_analytical_evidence(submission_text),
                                    _explain_analytical_thinking(analytical_score), 80) >>
              [] OTHER -> << >>
    IN  metrics

_generate_metrics_for_path(path, input_data) ==
    LET submission_text == _extract_text_content(input_data.content)
        code_quality_score == _analyze_code_quality(submission_text)
        problem_solving_score == _analyze_problem_solving(submission_text)
        testing_score == _analyze_testing(submission_text)
        architecture_score == _analyze_architecture(submission_text)
        design_thinking_score == _analyze_design_thinking(submission_text)
        documentation_score == _analyze_documentation(submission_text)
        readability_score == _analyze_readability(submission_text)
        analytical_score == _analyze_analytical_thinking(submission_text)
        metrics ==
            CASE path = "technical" ->
                   << ScoringMetric("Code Quality", "technical", code_quality_score, 30,
                                    _generate_code_quality_evidence(submission_text),
                                    _explain_code_quality(code_quality_score), 85),
                      ScoringMetric("Problem Solving", "technical", problem_solving_score, 30,
                                    _generate_problem_solving_evidence(submission_text),
                                    _explain_problem_solving(problem_solving_score), 80),
                      ScoringMetric("Testing", "technical", testing_score, 20,
                                    _generate_testing_evidence(submission_text),
                                    _explain_testing(testing_score), 75) >>
              [] path = "design" ->
                   << ScoringMetric("Architecture", "design", architecture_score, 40,
                                    _generate_architecture_evidence(submission_text),
                                    _explain_architecture(architecture_score), 80),
                      ScoringMetric("Design Thinking", "design", design_thinking_score, 30,
                                    _generate_design_thinking_evidence(submission_text),
                                    _explain_design_thinking(design_thinking_score), 75) >>
              [] path = "collaboration" ->
                   << ScoringMetric("Documentation", "collaboration", documentation_score, 30,
                                    _generate_documentation_evidence(submission_text),
                                    _explain_documentation(documentation_score), 80),
                      ScoringMetric("Code Readability", "collaboration", readability_score, 35,
                                    _generate_readability_evidence(submission_text),
                                    _explain_readability(readability_score), 85) >>
              [] path = "problem_solving" ->
                   << ScoringMetric("Analytical Thinking", "problem_solving", analytical_score,
                                    30, _generate_analytical_evidence(submission_text),
                                    _explain_analytical_thinking(analytical_score), 80) >>
              [] OTHER -> << >>
    IN  IF metrics = << >>
        THEN << ScoringMetric(Fmt(Title(path), " Assessment"), path, 50, 100, << >>,
                              Fmt("Basic assessment for ", path), 70) >>
        ELSE metrics

_generate_motive_evidence(text, motive_type) ==
    LET text_lower == LowerText(text)
    IN  CASE motive_type = "mastery" ->
               IF In("algorithm", text_lower) \/ In("optimize", text_lower)
               THEN <<Evidence("code_quality", "Technical depth indicators present",
                               "content_analysis", 60)>>
               ELSE << >>
          [] motive_type = "quality" ->
               IF In("test", text_lower) \/ In("error", text_lower)
               THEN <<Evidence("testing", "Quality-focused indicators present",
                               "content_analysis", 60)>>
               ELSE << >>
          [] OTHER -> << >>

_identify_micro_motives(path, input_data) ==
    LET submission_text == _extract_text_content(input_data.content)
        text_lower == LowerText(submission_text)
        Motive(cond, type, strength, indicator) ==
            IF cond
            THEN <<MicroMotive(type, strength, <<indicator>>,
                               _generate_motive_evidence(submission_text, type), path)>>
            ELSE << >>
    IN  CASE path = "technical" ->
               Motive(AnyIn({"algorithm", "optimize", "efficient"}, text_lower),
                      "mastery", 70, "Deep technical understanding")
               \o Motive(In("test", text_lower) \/ In("error", text_lower),
                         "quality", 60, "Quality-focused approach")
          [] path = "design" ->
               Motive(In("alternative", text_lower) \/ In("approach", text_lower),
                      "innovation", 60, "Explores multiple approaches")
          [] path = "collaboration" ->
               Motive(In("document", text_lower) \/ In("comment", text_lower),
                      "collaboration", 60, "Documentation focus")
          [] OTHER -> << >>

\* mutant: the total weight of 0 is not handled, the plain mean is always taken
_calculate_path_score_unweighted(metrics) ==
    IF metrics = << >> THEN RatInt(0)
    ELSE Rat(IntSum([i \in 1..Len(metrics) |-> metrics[i].score]), Len(metrics))

_calculate_path_score(metrics) ==
    IF metrics = << >> THEN RatInt(0)
    ELSE LET total_weight == IntSum([i \in 1..Len(metrics) |-> metrics[i].weight])
             weighted_sum ==
                 IntSum([i \in 1..Len(metrics) |-> metrics[i].score * metrics[i].weight])
         IN  IF total_weight = 0
             THEN Rat(IntSum([i \in 1..Len(metrics) |-> metrics[i].score]), Len(metrics))
             ELSE Rat(weighted_sum, total_weight)

\* mutant: the neutral score 50 is returned when there is no path score
_calculate_overall_score_neutral(path_scores) ==
    IF path_scores = << >> THEN RatInt(50)
    ELSE RatDivInt(RatSum([i \in 1..Len(path_scores) |-> path_scores[i].overall_score]),
                   Len(path_scores))

\* mutant: the scores of the metrics of all paths are averaged, not the path scores
_calculate_overall_score_permetric(path_scores) ==
    LET all == Join([i \in 1..Len(path_scores) |-> path_scores[i].metrics])
    IN  IF all = << >> THEN RatInt(0)
        ELSE Rat(IntSum([i \in 1..Len(all) |-> all[i].score]), Len(all))

_calculate_overall_score(path_scores) ==
    IF path_scores = << >> THEN RatInt(0)
    ELSE RatDivInt(RatSum([i \in 1..Len(path_scores) |-> path_scores[i].overall_score]),
                   Len(path_scores))

\* max(items, key=...) over the keys: the index of the maximum; the first item
\* is kept unless a later key is greater
RECURSIVE MaxLoop(_, _, _)
MaxLoop(keys, i, best) ==
    IF i > Len(keys) THEN best
    ELSE MaxLoop(keys, i + 1, IF RatLess(keys[best], keys[i]) THEN i ELSE best)

\* mutant: a later item with an equal key replaces the kept one
RECURSIVE MaxLoop_last(_, _, _)
MaxLoop_last(keys, i, best) ==
    IF i > Len(keys) THEN best
    ELSE MaxLoop_last(keys, i + 1, IF RatLeq(keys[best], keys[i]) THEN i ELSE best)

\* mutant: of equal maxima the last one wins
_determine_dominant_path_last(path_scores) ==
    IF path_scores = << >> THEN "None"
    ELSE path_scores[MaxLoop_last([i \in 1..Len(path_scores) |->
                                      path_scores[i].overall_score], 2, 1)].path

_determine_dominant_path(path_scores) ==
    IF path_scores = << >> THEN "None"
    ELSE path_scores[MaxLoop([i \in 1..Len(path_scores) |->
                                 path_scores[i].overall_score], 2, 1)].path

\* mutant: a metric counts as a strength above 75 only
_identify_strengths_above(metrics) ==
    LET Strong(m) == m.score > 75
        sel == SelectSeq(metrics, Strong)
    IN  [i \in 1..Len(sel) |-> <<sel[i].name, sel[i].explanation>>]

_identify_strengths(metrics) ==
    LET Strong(m) == m.score >= 75
        sel == SelectSeq(metrics, Strong)
    IN  [i \in 1..Len(sel) |-> <<sel[i].name, sel[i].explanation>>]

_identify_improvements(metrics) ==
    LET Weak(m) == m.score < 75
        sel == SelectSeq(metrics, Weak)
    IN  [i \in 1..Len(sel) |-> <<sel[i].name, sel[i].score>>]

_evaluate_path(path, input_data) ==
    LET metrics == _generate_metrics_for_path(path, input_data)
        motives == _identify_micro_motives(path, input_data)
        path_score == _calculate_path_score(metrics)
    IN  PathScore(path, path_score, metrics, motives,
                  _identify_strengths(metrics), _identify_improvements(metrics))

_generate_summary(path_scores, motives) ==
    [avg_score |-> _calculate_overall_score(path_scores),
     top_path |-> LET top == _determine_dominant_path(path_scores)
                  IN  IF top = "None" THEN "multiple areas" ELSE top,
     dominant_motive |->
         IF motives = << >> THEN "None"
         ELSE LET m == motives[MaxLoop([i \in 1..Len(motives) |->
                                                 RatInt(motives[i].strength)], 2, 1)]
              IN  <<m.motive_type, m.strength>>]

_extract_key_findings(path_scores) ==
    LET Finding(ps) ==
            IF RatLeq(RatInt(80), ps.overall_score)
            THEN <<<<"Strong performance in", ps.path, ps.overall_score>>>>
            ELSE IF RatLess(ps.overall_score, RatInt(60))
            THEN <<<<"Opportunity for growth in", ps.path, ps.overall_score>>>>
            ELSE << >>
    IN  Join([i \in 1..Len(path_scores) |-> Finding(path_scores[i])])

_generate_recommendations(path_scores) ==
    LET Rec(ps) ==
            IF ps.areas_for_improvement # << >>
            THEN <<<<"Focus on", ps.path, ps.areas_for_improvement[1]>>>>
            ELSE << >>
    IN  Join([i \in 1..Len(path_scores) |-> Rec(path_scores[i])])

\* mutant: the confidence of every metric is collected, not the mean of a path
RECURSIVE AllConfidences_permetric(_, _)
AllConfidences_permetric(path_scores, i) ==
    IF i > Len(path_scores) THEN << >>
    ELSE LET metrics == path_scores[i].metrics
         IN  [j \in 1..Len(metrics) |-> RatInt(metrics[j].confidence)]
             \o AllConfidences_permetric(path_scores, i + 1)

\* the loop of assess over the paths: the per-path mean confidences
RECURSIVE AllConfidences(_, _)
AllConfidences(path_scores, i) ==
    IF i > Len(path_scores) THEN << >>
    ELSE LET metrics == path_scores[i].metrics
             avg_confidence ==
                 Rat(IntSum([j \in 1..Len(metrics) |-> metrics[j].confidence]), Len(metrics))
         IN  (IF metrics # << >> THEN <<avg_confidence>> ELSE << >>)
             \o AllConfidences(path_scores, i + 1)

\* what assess does after its loop: the aggregates and the AssessmentResult
AssessmentResult(self, assessment_input, start, end, path_scores, all_motives, all_confidences) ==
    [returned |-> TRUE,
     candidate_id |-> assessment_input.candidate_id,
     assessment_id |-> <<"assess_", start>>,
     overall_score |-> _calculate_overall_score(path_scores),
     confidence |-> IF all_confidences # << >>
                    THEN RatDivInt(RatSum(all_confidences), Len(all_confidences))
                    ELSE RatInt(85),
     path_scores |-> path_scores,
     micro_motives |-> all_motives,
     dominant_path |-> _determine_dominant_path(path_scores),
     summary |-> _generate_summary(path_scores, all_motives),
     key_findings |-> _extract_key_findings(path_scores),
     recommendations |-> _generate_recommendations(path_scores),
     engine_version |-> self.version,
     processing_time_ms |-> end - start,
     metadata |-> [assessment_mode |-> IF self._use_ml THEN "hybrid" ELSE "heuristic",
                   ml_available |-> self._use_ml]]

\* assess(assessment_input) on the engine `self`; start and end are the clock
\* readings (ms) at entry and exit
assess(self, assessment_input, start, end) ==
    LET Response(path_scores, all_motives, all_confidences) ==
            AssessmentResult(self, assessment_input, start, end,
                             path_scores, all_motives, all_confidences)
        Loop(path_scores) ==
            Response(path_scores,
                     Join([i \in 1..Len(path_scores) |-> path_scores[i].motives]),
                     AllConfidences(path_scores, 1))
    IN  Loop([i \in 1..Len(assessment_input.paths_to_evaluate) |->
                 _evaluate_path(assessment_input.paths_to_evaluate[i], assessment_input)])

----------------------------------------------------------------------------
(* The engine and its caller *)

\* AssessmentEngine() with the defaults of __init__
AssessmentEngine ==
    [version |-> "1.0", enable_explanations |-> TRUE, multi_path_tracking |-> TRUE,
     _ml_model |-> "None", _use_ml |-> FALSE]

AssessmentInput(content, paths_to_evaluate) ==
    [candidate_id |-> "test_candidate", submission_type |-> "code",
     content |-> content, paths_to_evaluate |-> paths_to_evaluate]

\* time.time() in ms, as read by assess
ClockReadings == 0..MaxClock

NoResult == [returned |-> FALSE]
NoMemo == [kept |-> FALSE, again |-> FALSE]
NoInsights == [present |-> FALSE]
CouncilIdle == [_council |-> "None", _available |-> FALSE]
AggIdle == [op |-> "none"]
NoTasks == << >>

\* the contents the caller of the repeated-call scenario draws from
RepeatContents ==
    {c \in Contents : "text" \in DOMAIN c.map \/ c.repr # NoRepr}

\* the caller builds a new AssessmentInput around a content mapping of C
NewInput(C) ==
    /\ \E c \in C : input' = AssessmentInput(c, << >>)
    /\ result' = NoResult
    /\ memo' = [memo EXCEPT !.again = FALSE]
    /\ UNCHANGED <<engine, council, insights, pen, agg, tasks, clock, heap>>

\* the caller builds the AssessmentInput with one more path to evaluate
AddPath ==
    /\ Len(input.paths_to_evaluate) < MaxPaths
    /\ \E p \in PathType \ Range(input.paths_to_evaluate) :
          input' = AssessmentInput(input.content, Append(input.paths_to_evaluate, p))
    /\ result' = NoResult
    /\ memo' = [memo EXCEPT !.again = FALSE]
    /\ UNCHANGED <<engine, council, insights, pen, agg, tasks, clock, heap>>

\* the caller's note that assess was called again on the input it kept; the note
\* is dropped when the caller builds another input
Again == IF memo.kept /\ memo.input = input THEN [memo EXCEPT !.again = TRUE] ELSE memo

\* mutant: all_motives starts from the motives of the result returned before
Assess_stale ==
    /\ \E start \in ClockReadings : \E end \in start..MaxClock :
          LET r == assess(engine, input, start, end)
          IN  result' = IF result.returned
                        THEN [r EXCEPT !.micro_motives = result.micro_motives \o @]
                        ELSE r
    /\ memo' = Again
    /\ UNCHANGED <<engine, input, council, insights, pen, agg, tasks, clock, heap>>

\* await engine.assess(input)
Assess ==
    /\ \E start \in ClockReadings : \E end \in start..MaxClock :
          result' = assess(engine, input, start, end)
    /\ memo' = Again
    /\ UNCHANGED <<engine, input, council, insights, pen, agg, tasks, clock, heap>>

\* the caller keeps the input and what assess returned for it
Remember ==
    /\ result.returned
    /\ ~memo.kept
    /\ memo' = [kept |-> TRUE, again |-> FALSE, input |-> input,
                overall_score |-> result.overall_score,
                path_scores |-> result.path_scores,
                micro_motives |-> result.micro_motives]
    /\ UNCHANGED <<engine, input, result, council, insights, pen, agg, tasks, clock, heap>>

----------------------------------------------------------------------------
(* Specifications *)

InitIdle ==
    /\ engine = AssessmentEngine
    /\ result = NoResult
    /\ memo = NoMemo
    /\ council = CouncilIdle
    /\ insights = NoInsights
    /\ pen = PenIdle
    /\ agg = AggIdle
    /\ tasks = NoTasks
    /\ clock = 0
    /\ heap = NoHeap

\* one engine, a caller that builds inputs and assesses them
Init ==
    /\ InitIdle
    /\ input \in {AssessmentInput(c, << >>) : c \in Contents}

Next == NewInput(Contents) \/ AddPath \/ Assess

Spec == Init /\ [][Next]_vars

\* the same, with a caller that keeps one result to compare later ones with
InitRepeat ==
    /\ InitIdle
    /\ input \in {AssessmentInput(c, << >>) : c \in RepeatContents}

NextRepeat == NewInput(RepeatContents) \/ AddPath \/ Assess \/ Remember

SpecRepeat == InitRepeat /\ [][NextRepeat]_vars

\* a caller of calculate_pattern_penalty
InitPenalty ==
    /\ engine = AssessmentEngine
    /\ input = AssessmentInput(CHOOSE c \in Contents : c.repr # NoRepr, << >>)
    /\ result = NoResult
    /\ memo = NoMemo
    /\ council = CouncilIdle
    /\ insights = NoInsights
    /\ agg = AggIdle
    /\ tasks = NoTasks
    /\ clock = 0
    /\ heap = NoHeap
    /\ pen \in {[PenIdle EXCEPT !.violations = L, !.weights = w, !.max_penalty = m] :
                   L \in ViolationLists, w \in WeightTables, m \in MaxPenalties}

NextPenalty == PenaltyCall \/ PenaltyExtend

SpecPenalty == InitPenalty /\ [][NextPenalty]_vars


----------------------------------------------------------------------------
(* scorers/council_adapter.py *)

\* the council's free text, held by what get_insights reads of it: its pieces in
\* order, each one prose or a mention "<label>: <n>/<over>"
Prose == [kind |-> "prose"]
Mention(label, n, over) == [kind |-> "mention", label |-> label, n |-> n, over |-> over]

\* score[:\s]+(\d+)/100 with re.IGNORECASE, on one piece
ScoreMatch(piece) ==
    /\ piece.kind = "mention"
    /\ piece.label \in {"score", "Score", "SCORE"}
    /\ piece.over = 100

\* re.search: the position of the first piece that matches, 0 if there is none
RECURSIVE Search(_, _)
Search(synthesis, i) ==
    IF i > Len(synthesis) THEN 0
    ELSE IF ScoreMatch(synthesis[i]) THEN i
    ELSE Search(synthesis, i + 1)

\* what consult_async can answer
Syntheses ==
    { << >>,
      <<Prose>>,
      <<Prose, Mention("Score", 85, 100)>>,
      <<Mention("score", 150, 100), Prose>>,
      <<Mention("score", 0, 100)>>,
      <<Mention("rating", 70, 100), Mention("Score", 9, 10),
        Mention("SCORE", 60, 100), Mention("score", 95, 100)>> }

\* the outcomes of `await self._council.consult_async(query)`
Consultations ==
    {[raised |-> TRUE, synthesis |-> << >>]}
    \cup {[raised |-> FALSE, synthesis |-> s] : s \in Syntheses}

\* helpers.extract_text_content
extract_text_content(content) == _extract_text_content(content)

\* the outcomes of importing council_ai and of Council.for_domain
Loadings == {"ImportError", "Exception", "ok"}

\* load_if_available: the adapter's attributes afterwards
load_if_available(self, outcome) ==
    IF self._council # "None" THEN self
    ELSE CASE outcome = "ImportError" -> self
           [] outcome = "Exception" -> [self EXCEPT !._available = FALSE]
           [] OTHER -> [_council |-> "Council", _available |-> TRUE]

\* mutant: the consultation is not inside a try, its failure is not swallowed
get_insights_notry(self, content, path, outcome) ==
    IF ~self._available \/ self._council = "None" THEN NoInsights
    ELSE IF LenText(extract_text_content(content)) = 0 THEN NoInsights
    ELSE LET score_match == Search(outcome.synthesis, 1)
         IN  [present |-> TRUE, raised |-> outcome.raised,
              dict |-> [k \in {"synthesis", "score", "confidence"} |->
                           CASE k = "synthesis" -> outcome.synthesis
                             [] k = "score" ->
                                  IF score_match # 0
                                  THEN <<outcome.synthesis[score_match].n>>
                                  ELSE << >>
                             [] OTHER -> <<85>>]]

\* get_insights: score is << >> for None, <<n>> for float(n); the responses of
\* the personas are not read by the assessment and are left out
get_insights(self, content, path, outcome) ==
    IF ~self._available \/ self._council = "None" THEN NoInsights
    ELSE IF LenText(extract_text_content(content)) = 0 THEN NoInsights
    ELSE IF outcome.raised THEN NoInsights
    ELSE LET score_match == Search(outcome.synthesis, 1)
         IN  [present |-> TRUE,
              dict |-> [k \in {"synthesis", "score", "confidence"} |->
                           CASE k = "synthesis" -> outcome.synthesis
                             [] k = "score" ->
                                  IF score_match # 0
                                  THEN <<outcome.synthesis[score_match].n>>
                                  ELSE << >>
                             [] OTHER -> <<85>>]]

\* mutant: `score or 80.0`, so that a score of 0 becomes 80
enhance_metrics_falsy(metrics, council_insights, path) ==
    IF ~council_insights.present \/ DOMAIN council_insights.dict = {} THEN metrics
    ELSE LET synthesis == Get(council_insights.dict, "synthesis", <<Prose>>)
             score == Get(council_insights.dict, "score", << >>)
             council_metric ==
                 ScoringMetric("AI Council Review", "ai_assessment",
                               IF score # << >> /\ score # <<0>> THEN score[1] ELSE 80,
                               40,
                               <<[type |-> "code_quality",
                                  description |-> "Council Consensus",
                                  source |-> "council_ai", weight |-> 100,
                                  metadata |-> [synthesis |-> synthesis]]>>,
                               Fmt("The AI Council (various personas) reviewed the submission. Consensus: ",
                                   synthesis),
                               Get(council_insights.dict, "confidence", <<80>>)[1])
         IN  Append(metrics, council_metric)

\* enhance_metrics: the list `metrics` after the call (the append is in place);
\* the syntheses here are shorter than the 200 characters the explanation keeps
enhance_metrics(metrics, council_insights, path) ==
    IF ~council_insights.present \/ DOMAIN council_insights.dict = {} THEN metrics
    ELSE LET synthesis == Get(council_insights.dict, "synthesis", <<Prose>>)
             score == Get(council_insights.dict, "score", << >>)
             council_metric ==
                 ScoringMetric("AI Council Review", "ai_assessment",
                               IF score # << >> THEN score[1] ELSE 80,
                               40,
                               <<[type |-> "code_quality",
                                  description |-> "Council Consensus",
                                  source |-> "council_ai", weight |-> 100,
                                  metadata |-> [synthesis |-> synthesis]]>>,
                               Fmt("The AI Council (various personas) reviewed the submission. Consensus: ",
                                   synthesis),
                               Get(council_insights.dict, "confidence", <<80>>)[1])
         IN  Append(metrics, council_metric)

\* "" : one line without characters
EmptyText == EmptyLine

\* the contents the caller of the council scenario draws from
CouncilContents ==
    { [map |-> [k \in {"code"} |-> Str(HelloText)], repr |-> NoRepr],
      [map |-> [k \in {"code"} |-> Str(EmptyText)], repr |-> NoRepr],
      [map |-> [k \in {"text"} |-> Str(EssayText)], repr |-> NoRepr] }

\* paths_to_evaluate: no path twice, at most MaxPaths
PathLists ==
    {s \in SeqsUpTo(PathType, MaxPaths) : \A i, j \in 1..Len(s) : s[i] = s[j] => i = j}

\* whether a path of the result already carries the council's metric
Enriched(r) ==
    \E i \in 1..Len(r.path_scores) :
        \E j \in 1..Len(r.path_scores[i].metrics) :
            r.path_scores[i].metrics[j].name = "AI Council Review"

\* adapter.load_if_available()
LoadIfAvailable ==
    /\ \E outcome \in Loadings : council' = load_if_available(council, outcome)
    /\ UNCHANGED <<engine, input, result, memo, insights, pen, agg, tasks, clock, heap>>

\* insights = await adapter.get_insights(input.content, path), for a result the
\* caller has not enriched yet
GetInsights ==
    /\ result.returned
    /\ ~Enriched(result)
    /\ \E p \in Range(input.paths_to_evaluate) : \E outcome \in Consultations :
          /\ insights' = get_insights(council, input.content, p, outcome)
          /\ agg' = [op |-> "get_insights", self |-> council, outcome |-> outcome]
    /\ UNCHANGED <<engine, input, result, memo, council, pen, tasks, clock, heap>>

\* the insights a caller writes by hand: {}, {"synthesis": ...} and
\* {"synthesis": "score: 70/100", "score": 70.0}
CallerInsights ==
    { [present |-> TRUE, dict |-> << >>],
      [present |-> TRUE, dict |-> [k \in {"synthesis"} |-> <<Prose>>]],
      [present |-> TRUE,
       dict |-> [k \in {"synthesis", "score"} |->
                    IF k = "score" THEN <<70>> ELSE <<Mention("score", 70, 100)>>]] }

\* insights = {...}, for a result the caller has not enriched yet
BuildInsights ==
    /\ result.returned
    /\ ~Enriched(result)
    /\ insights' \in CallerInsights
    /\ agg' = [op |-> "build_insights"]
    /\ UNCHANGED <<engine, input, result, memo, council, pen, tasks, clock, heap>>

\* adapter.enhance_metrics(result.path_scores[i].metrics, insights, path): the
\* metrics list of the returned PathScore is the list that is appended to; the
\* caller then lets go of the insights
EnhanceMetrics ==
    /\ result.returned
    /\ ~Enriched(result)
    /\ \E i \in 1..Len(result.path_scores) :
          LET Call(metrics, ret) ==
                  /\ result' = [result EXCEPT !.path_scores[i].metrics = ret]
                  /\ agg' = [op |-> "enhance_metrics", metrics |-> metrics,
                             council_insights |-> insights, ret |-> ret]
          IN  Call(result.path_scores[i].metrics,
                   enhance_metrics(result.path_scores[i].metrics, insights,
                                   result.path_scores[i].path))
    /\ insights' = NoInsights
    /\ UNCHANGED <<engine, input, memo, council, pen, tasks, clock, heap>>

\* a caller that enriches the paths of a result with the council's review
InitCouncil ==
    /\ InitIdle
    /\ input \in {AssessmentInput(c, p) : c \in CouncilContents, p \in PathLists}

NextCouncil == Assess \/ LoadIfAvailable \/ GetInsights \/ BuildInsights \/ EnhanceMetrics

SpecCouncil == InitCouncil /\ [][NextCouncil]_vars

----------------------------------------------------------------------------
(* A caller of _calculate_path_score *)

MetricScores == {0, 60, 80}
MetricWeights == {0, 30, 50}

\* ScoringMetric(name="m", category="technical", score=..., weight=...)
PlainMetric(score, weight) ==
    ScoringMetric("m", "technical", score, weight, << >>, "", 85)

AggStart == [op |-> "path_score", metrics |-> << >>, called |-> FALSE, ret |-> RatInt(0)]

\* the caller adds a metric to the list it will pass
AppendMetric ==
    /\ Len(agg.metrics) < MaxMetrics
    /\ \E s \in MetricScores : \E w \in MetricWeights :
          agg' = [agg EXCEPT !.metrics = Append(@, PlainMetric(s, w)),
                             !.called = FALSE, !.ret = RatInt(0)]
    /\ UNCHANGED <<engine, input, result, memo, council, insights, pen, tasks, clock, heap>>

\* engine._calculate_path_score(metrics)
CalcPathScore ==
    /\ ~agg.called
    /\ agg' = [agg EXCEPT !.called = TRUE, !.ret = _calculate_path_score(agg.metrics)]
    /\ UNCHANGED <<engine, input, result, memo, council, insights, pen, tasks, clock, heap>>

InitAgg ==
    /\ engine = AssessmentEngine
    /\ input = AssessmentInput(CHOOSE c \in Contents : c.repr # NoRepr, << >>)
    /\ result = NoResult
    /\ memo = NoMemo
    /\ council = CouncilIdle
    /\ insights = NoInsights
    /\ pen = PenIdle
    /\ agg = AggStart
    /\ tasks = NoTasks
    /\ clock = 0
    /\ heap = NoHeap

NextAgg == AppendMetric \/ CalcPathScore

SpecAgg == InitAgg /\ [][NextAgg]_vars

----------------------------------------------------------------------------
(* Properties *)

InRange(x, lo, hi) == lo <= x /\ x <= hi
RatInRange(x, lo, hi) == RatLeq(RatInt(lo), x) /\ RatLeq(x, RatInt(hi))

\* the metrics of all paths of a result, in order
AllMetrics(r) == Join([i \in 1..Len(r.path_scores) |-> r.path_scores[i].metrics])

\* C1 (as stated): after assess(), with or without council enrichment, every
\* metric score and every path score is in [0,100], every metric confidence
\* and every motive strength is in [0,1] (0..100 hundredths), and the overall
\* score of the result is in [0,100].
C1_RangesHold ==
    result.returned =>
        /\ RatInRange(result.overall_score, 0, 100)
        /\ \A i \in 1..Len(result.path_scores) :
              LET ps == result.path_scores[i]
              IN  /\ RatInRange(ps.overall_score, 0, 100)
                  /\ \A j \in 1..Len(ps.metrics) :
                        /\ InRange(ps.metrics[j].score, 0, 100)
                        /\ InRange(ps.metrics[j].confidence, 0, 100)
                  /\ \A j \in 1..Len(ps.motives) : InRange(ps.motives[j].strength, 0, 100)
        /\ \A j \in 1..Len(result.micro_motives) :
              InRange(result.micro_motives[j].strength, 0, 100)

\* the severities of the violations passed to calculate_pattern_penalty
PenSeverities == {pen.violations[i].severity : i \in 1..Len(pen.violations)}

\* C2 (as stated): calculate_pattern_penalty returns p with 0 <= p <=
\* max_penalty; violations whose severity is missing from the weight table
\* contribute 0; the empty list gives 0.
C2_PenaltyInRange ==
    pen.called =>
        /\ InRange(pen.ret, 0, pen.max_penalty)
        /\ (PenSeverities \cap DOMAIN pen.weights = {}) => pen.ret = 0
        /\ pen.violations = << >> => pen.ret = 0

\* the violation added by PenaltyExtend, and the list before it
PenAdded == pen.violations[Len(pen.violations)]
PenBefore == SubSeq(pen.violations, 1, Len(pen.violations) - 1)
PenPatternsBefore == {PenBefore[i].pattern : i \in 1..Len(PenBefore)}

\* C3: a violation whose pattern name already occurs in the list changes
\* nothing: penalty(L + [v]) = penalty(L).
C3_DuplicatePatternIgnored ==
    (pen.extended /\ PenAdded.pattern \in PenPatternsBefore) => pen.ret = pen.prev

\* C3 witness: penalty([v, v]) was computed after penalty([v]), for a v that
\* has a positive weight, below the cap.
C3_Witness ==
    /\ pen.extended
    /\ Len(pen.violations) = 2
    /\ pen.violations[1] = pen.violations[2]
    /\ Get(pen.weights, PenAdded.severity, 0) > 0
    /\ 2 * Get(pen.weights, PenAdded.severity, 0) <= pen.max_penalty
    /\ pen.ret = pen.prev

C5_PathScoreIsWeightedMean ==
    agg.op = "path_score" /\ agg.called =>
        LET ms == agg.metrics
            W == IntSum([i \in 1..Len(ms) |-> ms[i].weight])
            SW == IntSum([i \in 1..Len(ms) |-> ms[i].score * ms[i].weight])
            S == IntSum([i \in 1..Len(ms) |-> ms[i].score])
            r == agg.ret
        IN  /\ r.d > 0
            /\ ms = << >> => r.n = 0
            /\ (ms # << >> /\ W # 0) => r.n * W = r.d * SW
            /\ (ms # << >> /\ W = 0) => r.n * Len(ms) = r.d * S
            /\ (/\ Len(ms) = 2
                /\ ms[1].score = 80 /\ ms[2].score = 60
                /\ ms[1].weight = 50 /\ ms[2].weight = 50) => r = RatInt(70)

\* C5 witness: scores 80 and 60 with weights 0.5 and 0.3 gave 72.5, which is
\* not their plain mean.
C5_Witness ==
    /\ agg.op = "path_score" /\ agg.called
    /\ Len(agg.metrics) = 2
    /\ agg.metrics[1].score = 80 /\ agg.metrics[1].weight = 50
    /\ agg.metrics[2].score = 60 /\ agg.metrics[2].weight = 30
    /\ agg.ret = [n |-> 145, d |-> 2]

\* C6: the overall score of the result is the plain mean of the path scores,
\* each path counted once, and 0 when no path was evaluated.
C6_OverallIsMeanOfPathScores ==
    result.returned =>
        LET ps == result.path_scores
            total == RatSum([i \in 1..Len(ps) |-> ps[i].overall_score])
            r == result.overall_score
        IN  /\ r.d > 0
            /\ ps = << >> => r.n = 0
            /\ ps # << >> => r.n * total.d * Len(ps) = r.d * total.n

\* C6 witness: two paths with different numbers of metrics and different
\* scores were evaluated.
C6_Witness ==
    /\ result.returned
    /\ Len(result.path_scores) = 2
    /\ Len(result.path_scores[1].metrics) # Len(result.path_scores[2].metrics)
    /\ result.path_scores[1].overall_score # result.path_scores[2].overall_score
    /\ result.overall_score # RatInt(0)

\* the mean confidence of the metrics of one path
PathConfidence(ps) ==
    Rat(IntSum([j \in 1..Len(ps.metrics) |-> ps.metrics[j].confidence]), Len(ps.metrics))

C8_DominantIsFirstMaximum ==
    (result.returned /\ result.path_scores # << >>) =>
        LET ps == result.path_scores
        IN  \E i \in 1..Len(ps) :
               /\ result.dominant_path = ps[i].path
               /\ \A j \in 1..Len(ps) : RatLeq(ps[j].overall_score, ps[i].overall_score)
               /\ \A j \in 1..(i - 1) : RatLess(ps[j].overall_score, ps[i].overall_score)

\* C8 witness: two paths share the maximum score and the first was chosen.
C8_Witness ==
    /\ result.returned
    /\ Len(result.path_scores) = 2
    /\ result.path_scores[1].overall_score = result.path_scores[2].overall_score
    /\ result.path_scores[1].path # result.path_scores[2].path
    /\ result.dominant_path = result.path_scores[1].path

\* C9: assess() with paths_to_evaluate = [] returns a result with overall score
\* 0, no path scores and no dominant path.
C9_EmptyPaths ==
    (result.returned /\ input.paths_to_evaluate = << >>) =>
        /\ result.overall_score = RatInt(0)
        /\ result.path_scores = << >>
        /\ result.dominant_path = "None"

\* C9 witness: assess() returned for an input without paths.
C9_Witness ==
    /\ result.returned
    /\ input.paths_to_evaluate = << >>
    /\ result.micro_motives = << >>
    /\ result.confidence = RatInt(85)

----------------------------------------------------------------------------
(* pattern_checks.py: the scanner *)

\* one entry of a rule table; the regex is held by a name of its own, and a
\* line holds the names of the regexes that re.search finds in it
Rule(name, regex, description, severity) ==
    [name |-> name, regex |-> regex, description |-> description, severity |-> severity]

\* the built-in table, in declaration order (a dict keeps insertion order)
DEFAULT_PATTERN_RULES ==
    << Rule("numpy_json_serialization", "rx_np_dumps",
            "NumPy types in JSON serialization (use .item() or .tolist())", "high"),
       Rule("numpy_nan_inf", "rx_np_nan",
            "NumPy NaN/Inf not checked before JSON serialization", "high"),
       Rule("bounds_checking", "rx_index0",
            "List access without bounds checking", "medium"),
       Rule("specific_exceptions", "rx_bare_except",
            "Bare except clause (should catch specific exceptions)", "medium"),
       Rule("structured_logging", "rx_print",
            "Using print instead of logging", "low"),
       Rule("temp_file_handling", "rx_mktemp",
            "Using deprecated mktemp function (use mkstemp or NamedTemporaryFile)", "high"),
       Rule("large_file_loading", "rx_read",
            "Loading entire file into memory (consider streaming for large files)", "low"),
       Rule("fastapi_streaming", "rx_await_read",
            "FastAPI upload loaded entirely into memory (consider streaming)", "medium"),
       Rule("metadata_logic", "rx_in_lower",
            "String matching for business logic (consider metadata-based approach)", "low") >>

\* the `rules` argument: None (not passed), or a table
NoRules == [passed |-> FALSE, table |-> << >>]
Rules(table) == [passed |-> TRUE, table |-> table]

\* re.search(pattern_info["regex"], line)
ReSearch(regex, line) == regex \in line.hits

\* PatternViolation(...); code=line.strip() is not held
PatternViolation(pattern, line, description, severity, confidence) ==
    [pattern |-> pattern, line |-> line, description |-> description,
     severity |-> severity, confidence |-> confidence]

\* the inner loop of detect_pattern_violations: the rules from the k-th on, on one line
RECURSIVE ScanLine(_, _, _, _)
ScanLine(line, line_num, rules, k) ==
    IF k > Len(rules) THEN << >>
    ELSE (IF ReSearch(rules[k].regex, line)
          THEN <<PatternViolation(rules[k].name, line_num, rules[k].description,
                                  rules[k].severity, 80)>>
          ELSE << >>)
         \o ScanLine(line, line_num, rules, k + 1)

\* mutant: the scan of a line stops at the first rule that matches
RECURSIVE ScanLine_first(_, _, _, _)
ScanLine_first(line, line_num, rules, k) ==
    IF k > Len(rules) THEN << >>
    ELSE IF ReSearch(rules[k].regex, line)
         THEN <<PatternViolation(rules[k].name, line_num, rules[k].description,
                                 rules[k].severity, 80)>>
         ELSE ScanLine_first(line, line_num, rules, k + 1)

\* the outer loop: the lines from the i-th on
RECURSIVE ScanLines(_, _, _)
ScanLines(code, rules, i) ==
    IF i > Len(code) THEN << >>
    ELSE ScanLine(code[i], i, rules, 1) \o ScanLines(code, rules, i + 1)

RECURSIVE ScanLines_first(_, _, _)
ScanLines_first(code, rules, i) ==
    IF i > Len(code) THEN << >>
    ELSE ScanLine_first(code[i], i, rules, 1) \o ScanLines_first(code, rules, i + 1)

\* mutant: one violation per line at most
detect_pattern_violations_first(code, rules) ==
    ScanLines_first(code,
                    IF rules.passed /\ rules.table # << >> THEN rules.table
                    ELSE DEFAULT_PATTERN_RULES, 1)

\* mutant: the built-in table is always scanned with
detect_pattern_violations_builtin(code, rules) ==
    ScanLines(code, DEFAULT_PATTERN_RULES, 1)

\* rules = rules or DEFAULT_PATTERN_RULES: None and the empty table are both falsy
detect_pattern_violations(code, rules) ==
    ScanLines(code,
              IF rules.passed /\ rules.table # << >> THEN rules.table
              ELSE DEFAULT_PATTERN_RULES, 1)

\* a handler that reads an upload, dumps NumPy values, prints and uses mktemp
ScanText ==
    << [kws |-> {}, chars |-> 26, prints |-> 0, marks |-> 0, blank |-> FALSE, hash |-> FALSE, hits |-> {"rx_read", "rx_await_read"}],
       [kws |-> {"try:"}, chars |-> 4, prints |-> 0, marks |-> 0, blank |-> FALSE, hash |-> FALSE, hits |-> {}],
       [kws |-> {}, chars |-> 39, prints |-> 1, marks |-> 0, blank |-> FALSE, hash |-> FALSE, hits |-> {"rx_np_dumps", "rx_index0", "rx_print"}],
       [kws |-> {"except"}, chars |-> 7, prints |-> 0, marks |-> 0, blank |-> FALSE, hash |-> FALSE, hits |-> {"rx_bare_except"}],
       [kws |-> {}, chars |-> 28, prints |-> 1, marks |-> 0, blank |-> FALSE, hash |-> FALSE, hits |-> {"rx_print", "rx_mktemp"}],
       [kws |-> {"if ", "name"}, chars |-> 41, prints |-> 0, marks |-> 0, blank |-> FALSE, hash |-> FALSE, hits |-> {"rx_np_nan", "rx_in_lower"}],
       [kws |-> {}, chars |-> 12, prints |-> 0, marks |-> 0, blank |-> FALSE, hash |-> FALSE, hits |-> {}] >>

----------------------------------------------------------------------------
(* scorers/heuristic.py: the Code Quality analysis of HeuristicScorer *)

HeuristicScorerConfig(pattern_checks_enabled) ==
    [pattern_checks_enabled |-> pattern_checks_enabled,
     pattern_penalty_low |-> 1, pattern_penalty_medium |-> 3,
     pattern_penalty_high |-> 5, pattern_penalty_max |-> 15]

\* HeuristicScorer(config): the attributes set by __init__
HeuristicScorer(config) ==
    [config |-> config,
     pattern_penalty_weights |->
         [s \in {"low", "medium", "high", "critical"} |->
             CASE s = "low" -> config.pattern_penalty_low
               [] s = "medium" -> config.pattern_penalty_medium
               [] OTHER -> config.pattern_penalty_high],
     pattern_penalty_max |-> config.pattern_penalty_max]

\* len(non_empty_lines): the lines that are not blank and do not start with "#"
NonEmptyLines(text) == Cardinality({i \in 1..Len(text) : ~text[i].blank /\ ~text[i].hash})

\* logic_density = len(non_empty_lines) / max(len(lines), 1), compared with 0.7
\* and 0.5 on both sides times 10 * len(lines)
LogicDensityBonus(text) ==
    IF 10 * NonEmptyLines(text) > 7 * Max(Len(text), 1) THEN 8
    ELSE IF 10 * NonEmptyLines(text) > 5 * Max(Len(text), 1) THEN 5
    ELSE 0

\* mutant: the penalty is subtracted whether or not pattern checks are enabled
HeuristicScorer_analyze_code_quality_always(self, text, pattern_violations) ==
    LET text_lower == LowerText(text)
    IN  Clamp(50
            + Bonus(In("def ", text) \/ In("function ", text) \/ In("class ", text), 10)
            + Bonus(In("import ", text) \/ In("from ", text), 5)
            + LogicDensityBonus(text)
            + Bonus(In("try:", text) \/ In("except", text) \/ In("error", text_lower), 10)
            + Bonus(In("test", text_lower) \/ In("assert", text_lower), 10)
            - Bonus(CountPrints(text) > 5, 5)
            - Bonus(In("todo", text_lower) \/ In("fixme", text_lower), 3)
            - calculate_pattern_penalty(pattern_violations, self.pattern_penalty_weights,
                                        self.pattern_penalty_max))

\* HeuristicScorer._analyze_code_quality(text, pattern_violations); None is held
\* as the empty list, which the method treats alike
HeuristicScorer_analyze_code_quality(self, text, pattern_violations) ==
    LET text_lower == LowerText(text)
    IN  Clamp(50
            + Bonus(In("def ", text) \/ In("function ", text) \/ In("class ", text), 10)
            + Bonus(In("import ", text) \/ In("from ", text), 5)
            + LogicDensityBonus(text)
            + Bonus(In("try:", text) \/ In("except", text) \/ In("error", text_lower), 10)
            + Bonus(In("test", text_lower) \/ In("assert", text_lower), 10)
            - Bonus(CountPrints(text) > 5, 5)
            - Bonus(In("todo", text_lower) \/ In("fixme", text_lower), 3)
            - (IF pattern_violations # << >> /\ self.config.pattern_checks_enabled
               THEN calculate_pattern_penalty(pattern_violations,
                                              self.pattern_penalty_weights,
                                              self.pattern_penalty_max)
               ELSE 0))

----------------------------------------------------------------------------
(* A caller of the scanner and of the Code Quality analysis *)

\* rule tables a caller passes: none, the empty one, the built-in one, and two
\* of its own (one reuses a built-in name for another regex)
RuleArgs ==
    { NoRules,
      Rules(<< >>),
      Rules(DEFAULT_PATTERN_RULES),
      Rules(<< Rule("no_print", "rx_print", "print call", "high") >>),
      Rules(<< Rule("bounds_checking", "rx_bare_except", "bare except", "low"),
               Rule("reads", "rx_read", "whole-file read", "critical"),
               Rule("no_print", "rx_print", "print call", "info") >>) }

\* an 11-line function: "def total(xs):", "    acc = 0", eight times
\* "    acc = acc + xs.pop()", "    return acc"
LongDefText ==
    << [kws |-> {"def "}, chars |-> 14, prints |-> 0, marks |-> 0, blank |-> FALSE, hash |-> FALSE, hits |-> {}],
       [kws |-> {}, chars |-> 11, prints |-> 0, marks |-> 0, blank |-> FALSE, hash |-> FALSE, hits |-> {}] >>
    \o [i \in 1..8 |-> [kws |-> {}, chars |-> 24, prints |-> 0, marks |-> 0, blank |-> FALSE, hash |-> FALSE, hits |-> {}]]
    \o << [kws |-> {}, chars |-> 14, prints |-> 0, marks |-> 0, blank |-> FALSE, hash |-> FALSE, hits |-> {}] >>

\* "def f():", two blank lines, "    return 1"
SparseDefText ==
    << [kws |-> {"def "}, chars |-> 8, prints |-> 0, marks |-> 0, blank |-> FALSE, hash |-> FALSE, hits |-> {}],
       [kws |-> {}, chars |-> 0, prints |-> 0, marks |-> 0, blank |-> TRUE, hash |-> FALSE, hits |-> {}],
       [kws |-> {}, chars |-> 0, prints |-> 0, marks |-> 0, blank |-> TRUE, hash |-> FALSE, hits |-> {}],
       [kws |-> {}, chars |-> 12, prints |-> 0, marks |-> 0, blank |-> FALSE, hash |-> FALSE, hits |-> {}] >>

ScanTexts ==
    {HelloText, RichText, PrintsText, ScanText, ListItem1 \o ListItem2, EmptyText,
     LongDefText, SparseDefText}

ScanStart(text, rules, enabled) ==
    [op |-> "scan", stage |-> "start", text |-> text, rules |-> rules,
     scorer |-> HeuristicScorer(HeuristicScorerConfig(enabled)),
     violations |-> << >>, score |-> 0, engine_score |-> << >>]

\* violations = detect_pattern_violations(text, rules)
Detect ==
    /\ agg.op = "scan"
    /\ agg.stage = "start"
    /\ agg' = [agg EXCEPT !.stage = "scanned",
                          !.violations = detect_pattern_violations(agg.text, agg.rules)]
    /\ UNCHANGED <<engine, input, result, memo, council, insights, pen, tasks, clock, heap>>

\* scorer._analyze_code_quality(text, violations), or without violations when
\* the caller has not scanned
AnalyzeCodeQuality ==
    /\ agg.op = "scan"
    /\ agg.stage \in {"start", "scanned"}
    /\ agg' = [agg EXCEPT !.stage = IF @ = "start" THEN "scored_plain" ELSE "scored",
                          !.score = HeuristicScorer_analyze_code_quality(
                                        agg.scorer, agg.text, agg.violations)]
    /\ UNCHANGED <<engine, input, result, memo, council, insights, pen, tasks, clock, heap>>

\* engine._analyze_code_quality(text), as the unit test calls it
EngineAnalyzeCodeQuality ==
    /\ agg.op = "scan"
    /\ agg.engine_score = << >>
    /\ agg' = [agg EXCEPT !.engine_score = << _analyze_code_quality(agg.text) >>]
    /\ UNCHANGED <<engine, input, result, memo, council, insights, pen, tasks, clock, heap>>

InitScan ==
    /\ engine = AssessmentEngine
    /\ input = AssessmentInput(CHOOSE c \in Contents : c.repr # NoRepr, << >>)
    /\ result = NoResult
    /\ memo = NoMemo
    /\ council = CouncilIdle
    /\ insights = NoInsights
    /\ pen = PenIdle
    /\ agg \in {ScanStart(t, r, e) : t \in ScanTexts, r \in RuleArgs, e \in BOOLEAN}
    /\ tasks = NoTasks
    /\ clock = 0
    /\ heap = NoHeap

NextScan == Detect \/ AnalyzeCodeQuality \/ EngineAnalyzeCodeQuality

SpecScan == InitScan /\ [][NextScan]_vars

----------------------------------------------------------------------------
(* Properties of the scanner and of Code Quality *)

\* the position of the technical path in a result, 0 if it was not evaluated
TechnicalAt(r) ==
    LET at == {i \in 1..Len(r.path_scores) : r.path_scores[i].path = "technical"}
    IN  IF at = {} THEN 0 ELSE CHOOSE i \in at : TRUE

\* C11 (as stated): in assess(), with pattern checks enabled (the default) and
\* a "code" submission, the capped penalty of the violations the scanner finds
\* in the extracted text is subtracted from the technical path's Code Quality
\* score, which is then clamped; otherwise the penalty is 0.
C11_PenaltySubtractedInAssess ==
    (result.returned /\ TechnicalAt(result) # 0) =>
        LET text == _extract_text_content(input.content)
            penalty ==
                IF input.submission_type = "code"
                THEN calculate_pattern_penalty(detect_pattern_violations(text, NoRules),
                                               DefaultWeights, 15)
                ELSE 0
        IN  result.path_scores[TechnicalAt(result)].metrics[1].score
              = Clamp(_analyze_code_quality(text) - penalty)

\* function syntax and none of the other keyword signals of Code Quality
OnlyFunctionSyntax(text) ==
    /\ In("def ", text) \/ In("function ", text) \/ In("class ", text)
    /\ ~(In("import ", text) \/ In("from ", text))
    /\ ~(In("try:", text) \/ In("except", text) \/ In("error", LowerText(text)))
    /\ ~(In("test", LowerText(text)) \/ In("assert", LowerText(text)))
    /\ CountPrints(text) <= 5
    /\ ~(In("todo", LowerText(text)) \/ In("fixme", LowerText(text)))

----------------------------------------------------------------------------
(* Every member of PathType, every shape of content *)

\* the members of PathType named in src/: the four with a battery, and
\* COMMUNICATION (integrations/sono_platform.py), which has none
AnyPathType == PathType \cup {"communication"}

\* str({"code": 42})
CodeNumberRepr ==
    << [kws |-> {}, chars |-> 12, prints |-> 0, marks |-> 0, blank |-> FALSE, hash |-> FALSE, hits |-> {}] >>

\* the content mappings, with {"code": ""} and {"code": 42}
AnyContents ==
    Contents \cup
    { [map |-> [k \in {"code"} |-> Str(EmptyText)], repr |-> NoRepr],
      [map |-> [k \in {"code"} |-> [kind |-> "other"]], repr |-> CodeNumberRepr] }

\* the caller builds the AssessmentInput with one more path, of any member
AddAnyPath ==
    /\ Len(input.paths_to_evaluate) < MaxPaths
    /\ \E p \in AnyPathType \ Range(input.paths_to_evaluate) :
          input' = AssessmentInput(input.content, Append(input.paths_to_evaluate, p))
    /\ result' = NoResult
    /\ memo' = [memo EXCEPT !.again = FALSE]
    /\ UNCHANGED <<engine, council, insights, pen, agg, tasks, clock, heap>>

InitAnyPath ==
    /\ InitIdle
    /\ input \in {AssessmentInput(c, << >>) : c \in AnyContents}

NextAnyPath == NewInput(AnyContents) \/ AddAnyPath \/ Assess

SpecAnyPath == InitAnyPath /\ [][NextAnyPath]_vars

\* C13: every PathScore returned by assess() has at least one metric; for a
\* path without a battery it has exactly one, named "<Path> Assessment", with
\* score 50, weight 1.0 and confidence 0.7, and the path's overall_score is 50.
C13_FallbackMetric ==
    result.returned =>
        \A i \in 1..Len(result.path_scores) :
            LET ps == result.path_scores[i]
            IN  /\ Len(ps.metrics) >= 1
                /\ ps.path \notin PathType =>
                      /\ Len(ps.metrics) = 1
                      /\ ps.metrics[1].name = <<Title(ps.path), " Assessment">>
                      /\ ps.metrics[1].score = 50
                      /\ ps.metrics[1].weight = 100
                      /\ ps.metrics[1].confidence = 70
                      /\ ps.overall_score = RatInt(50)

C13_Witness ==
    /\ result.returned
    /\ Len(result.path_scores) = 2
    /\ result.path_scores[1].path = "design"
    /\ result.path_scores[2].path = "communication"
    /\ result.path_scores[2].metrics[1].name = <<"Communication", " Assessment">>
    /\ result.path_scores[2].overall_score = RatInt(50)

\* the fields of an AssessmentResult
ResultFields ==
    {"returned", "candidate_id", "assessment_id", "overall_score", "confidence",
     "path_scores", "micro_motives", "dominant_path", "summary", "key_findings",
     "recommendations", "engine_version", "processing_time_ms", "metadata"}

\* the content {"text": str(content)}
Stringified(content) == [map |-> [k \in {"text"} |-> Str(content.repr)], repr |-> NoRepr]

\* C14: on every input (every member of PathType, every content mapping)
\* assess() returns a result with every field set, one PathScore per requested
\* path in order; when no known key holds a string or a list,
\* the result is the one of the stringified mapping.
C14_AlwaysReturnsPopulated ==
    result.returned =>
       /\ DOMAIN result = ResultFields
       /\ result.candidate_id = input.candidate_id
       /\ Len(result.path_scores) = Len(input.paths_to_evaluate)
       /\ \A i \in 1..Len(result.path_scores) :
             /\ result.path_scores[i].path = input.paths_to_evaluate[i]
             /\ result.path_scores[i].metrics # << >>
             /\ RatInRange(result.path_scores[i].overall_score, 0, 100)
       /\ RatInRange(result.overall_score, 0, 100)
       /\ result.dominant_path \in AnyPathType \cup {"None"}
       /\ (result.dominant_path = "None") = (input.paths_to_evaluate = << >>)
       /\ TextParts(input.content.map, 1) = << >> =>
             result.path_scores =
                 assess(engine, AssessmentInput(Stringified(input.content),
                                                input.paths_to_evaluate), 0, 0).path_scores

C14_Witness ==
    /\ result.returned
    /\ input.content.repr = CodeNumberRepr
    /\ Len(result.path_scores) = 2
    /\ result.path_scores[1].path = "communication"
    /\ result.path_scores[2].path = "technical"

----------------------------------------------------------------------------
(* Several assess() coroutines on one engine and one event loop *)

\* the inputs the coroutines are called with
TaskInputs ==
    { AssessmentInput([map |-> [k \in {"code"} |-> Str(HelloText)], repr |-> NoRepr],
                      <<"technical", "design">>),
      AssessmentInput([map |-> [k \in {"text"} |-> Str(EssayText)], repr |-> NoRepr],
                      <<"design">>),
      AssessmentInput([map |-> [k \in {"code"} |-> Str(RichText)], repr |-> NoRepr],
                      << >>) }

\* the local variables of assess(assessment_input) before its first statement
NewTask(assessment_input) ==
    [pc |-> "new", assessment_input |-> assessment_input, start_time |-> 0,
     assessment_id |-> << >>, path_scores |-> << >>, all_motives |-> << >>,
     all_confidences |-> << >>, result |-> NoResult]

\* time passes
Tick ==
    /\ clock < MaxClock
    /\ clock' = clock + 1
    /\ UNCHANGED <<engine, input, result, memo, council, insights, pen, agg, tasks, heap>>

\* assess, up to its loop: start_time, assessment_id and the three empty lists
Begin(t) ==
    /\ tasks[t].pc = "new"
    /\ tasks' = [tasks EXCEPT ![t].pc = "loop",
                              ![t].start_time = clock,
                              ![t].assessment_id = <<"assess_", clock>>]
    /\ UNCHANGED <<engine, input, result, memo, council, insights, pen, agg, clock, heap>>

\* mutant: path_scores and all_motives are kept on the engine, so that every
\* coroutine in its loop sees what this one appends
EvaluatePath_shared(t) ==
    /\ tasks[t].pc = "loop"
    /\ Len(tasks[t].path_scores) < Len(tasks[t].assessment_input.paths_to_evaluate)
    /\ LET self == tasks[t]
           path == self.assessment_input.paths_to_evaluate[Len(self.path_scores) + 1]
           Body(path_score) ==
               [u \in DOMAIN tasks |->
                   IF tasks[u].pc = "loop"
                   THEN [tasks[u] EXCEPT
                            !.path_scores = Append(@, path_score),
                            !.all_motives = @ \o path_score.motives,
                            !.all_confidences = @ \o AllConfidences(<<path_score>>, 1)]
                   ELSE tasks[u]]
       IN  tasks' = Body(_evaluate_path(path, self.assessment_input))
    /\ UNCHANGED <<engine, input, result, memo, council, insights, pen, agg, clock, heap>>

\* one turn of the loop of assess: await self._evaluate_path(path, input), then
\* the appends to the coroutine's own lists
EvaluatePath(t) ==
    /\ tasks[t].pc = "loop"
    /\ Len(tasks[t].path_scores) < Len(tasks[t].assessment_input.paths_to_evaluate)
    /\ LET self == tasks[t]
           path == self.assessment_input.paths_to_evaluate[Len(self.path_scores) + 1]
           Body(path_score) ==
               [tasks EXCEPT
                   ![t].path_scores = Append(@, path_score),
                   ![t].all_motives = @ \o path_score.motives,
                   ![t].all_confidences = @ \o AllConfidences(<<path_score>>, 1)]
       IN  tasks' = Body(_evaluate_path(path, self.assessment_input))
    /\ UNCHANGED <<engine, input, result, memo, council, insights, pen, agg, clock, heap>>

\* assess, after its loop: the aggregates, the AssessmentResult, the return
Return(t) ==
    /\ tasks[t].pc = "loop"
    /\ Len(tasks[t].path_scores) = Len(tasks[t].assessment_input.paths_to_evaluate)
    /\ tasks' = [tasks EXCEPT
                    ![t].pc = "done",
                    ![t].result = AssessmentResult(engine, tasks[t].assessment_input,
                                                   tasks[t].start_time, clock,
                                                   tasks[t].path_scores, tasks[t].all_motives,
                                                   tasks[t].all_confidences)]
    /\ UNCHANGED <<engine, input, result, memo, council, insights, pen, agg, clock, heap>>

InitTasks ==
    /\ engine = AssessmentEngine
    /\ input = AssessmentInput(CHOOSE c \in Contents : c.repr # NoRepr, << >>)
    /\ result = NoResult
    /\ memo = NoMemo
    /\ council = CouncilIdle
    /\ insights = NoInsights
    /\ pen = PenIdle
    /\ agg = AggIdle
    /\ tasks \in [1..MaxTasks -> {NewTask(i) : i \in TaskInputs}]
    /\ clock = 0
    /\ heap = NoHeap

\* the event loop runs one of the coroutines up to its next await
BeginSome == \E t \in DOMAIN tasks : Begin(t)
EvaluateSome == \E t \in DOMAIN tasks : EvaluatePath(t)
ReturnSome == \E t \in DOMAIN tasks : Return(t)

NextTasks == Tick \/ BeginSome \/ EvaluateSome \/ ReturnSome

SpecTasks == InitTasks /\ [][NextTasks]_vars

\* what a caller compares of two results
Outcome(r) ==
    [overall_score |-> r.overall_score, path_scores |-> r.path_scores,
     micro_motives |-> r.micro_motives, dominant_path |-> r.dominant_path]

\* C15: however the assess() coroutines on one engine are interleaved at their
\* await points, each returns the overall_score, path_scores, micro_motives
\* and dominant_path it returns when run alone, and the engine's attributes
\* are never written.
C15_InterleavingIsInvisible ==
    /\ engine = AssessmentEngine
    /\ \A t \in DOMAIN tasks :
          tasks[t].pc = "done" =>
              Outcome(tasks[t].result)
                = Outcome(assess(AssessmentEngine, tasks[t].assessment_input, 0, 0))

\* two coroutines with different inputs, the first done while the second, begun
\* before the first returned, is in its loop
C15_Witness ==
    /\ tasks # NoTasks
    /\ tasks[1].pc = "done"
    /\ tasks[2].pc = "loop"
    /\ tasks[1].assessment_input # tasks[2].assessment_input
    /\ tasks[1].result.path_scores # << >>
    /\ tasks[2].path_scores # << >>
    /\ tasks[2].start_time < tasks[1].start_time + tasks[1].result.processing_time_ms

\* C16 (as stated): any two assess() calls of a process, sequential or
\* concurrent, get different assessment_id values.
C16_AssessmentIdsDiffer ==
    \A t, u \in DOMAIN tasks :
        (t # u /\ tasks[t].pc # "new" /\ tasks[u].pc # "new")
            => tasks[t].assessment_id # tasks[u].assessment_id

\* the table a scan is made with, when none or a non-empty one is passed
TableOf(rules) == IF rules.passed THEN rules.table ELSE DEFAULT_PATTERN_RULES

\* the position of a rule name in a table (names are dict keys: no name twice)
RuleIndex(table, name) == CHOOSE k \in 1..Len(table) : table[k].name = name

\* the number of violations of a list for one (line, rule name) pair
CountPair(violations, line_num, name) ==
    Cardinality({j \in 1..Len(violations) :
                    violations[j].line = line_num /\ violations[j].pattern = name})

\* C17: detect_pattern_violations returns exactly one PatternViolation for each
\* (line, rule) pair whose regex matches the line and none for another pair,
\* ordered by line number (from 1), then by the rule's place in the table.
C17_OnePerMatchInScanOrder ==
    (/\ agg.op = "scan"
     /\ agg.stage \in {"scanned", "scored"}
     /\ agg.rules # Rules(<< >>))
        => LET table == TableOf(agg.rules)
               v == agg.violations
           IN  /\ \A i \in 1..Len(agg.text) : \A k \in 1..Len(table) :
                     CountPair(v, i, table[k].name)
                       = IF ReSearch(table[k].regex, agg.text[i]) THEN 1 ELSE 0
               /\ \A j \in 1..Len(v) :
                     /\ v[j].line \in 1..Len(agg.text)
                     /\ \E k \in 1..Len(table) : table[k].name = v[j].pattern
               /\ \A a, b \in 1..Len(v) :
                     a < b =>
                        \/ v[a].line < v[b].line
                        \/ /\ v[a].line = v[b].line
                           /\ RuleIndex(table, v[a].pattern) < RuleIndex(table, v[b].pattern)

\* three rules of the built-in table match line 3 of the upload handler, and
\* one rule matches two lines
C17_Witness ==
    /\ agg.op = "scan"
    /\ agg.stage = "scanned"
    /\ agg.rules = NoRules
    /\ agg.text = ScanText
    /\ Len(agg.violations) = 10
    /\ CountPair(agg.violations, 3, "structured_logging") = 1
    /\ CountPair(agg.violations, 5, "structured_logging") = 1
    /\ CountPair(agg.violations, 3, "bounds_checking") = 1

\* C18 (as stated): when the caller passes a rule table, the empty one
\* included, every returned violation's pattern is a rule name of that table;
\* the built-in table is used only when no table is passed.
C18_OnlyRulesOfThePassedTable ==
    (/\ agg.op = "scan"
     /\ agg.stage \in {"scanned", "scored"}
     /\ agg.rules.passed)
        => \A j \in 1..Len(agg.violations) :
              \E k \in 1..Len(agg.rules.table) :
                  agg.rules.table[k].name = agg.violations[j].pattern

----------------------------------------------------------------------------
(* Properties of the council adapter *)

\* None or {}: what `not council_insights` holds for
NoneOrEmpty(council_insights) ==
    ~council_insights.present \/ DOMAIN council_insights.dict = {}

\* C19: get_insights returns None, without raising, when the council is not
\* loaded, when the extracted text is empty, or when the consultation fails;
\* enhance_metrics with None or {} returns the list it was given, unchanged.
C19_NoInsightsNoChange ==
    /\ (/\ agg.op = "get_insights"
        /\ \/ ~agg.self._available
           \/ agg.self._council = "None"
           \/ LenText(extract_text_content(input.content)) = 0
           \/ agg.outcome.raised)
          => insights = NoInsights
    /\ (agg.op = "enhance_metrics" /\ NoneOrEmpty(agg.council_insights))
          => agg.ret = agg.metrics

\* a loaded council whose consultation failed
C19_Witness ==
    /\ agg.op = "get_insights"
    /\ agg.self._available
    /\ agg.self._council # "None"
    /\ LenText(extract_text_content(input.content)) > 0
    /\ agg.outcome.raised
    /\ insights = NoInsights

\* the number after the first match of score[:\s]+(\d+)/100, << >> without one
Parsed(synthesis) ==
    IF Search(synthesis, 1) # 0 THEN <<synthesis[Search(synthesis, 1)].n>> ELSE << >>

\* C20: with insights that are neither None nor empty, enhance_metrics returns
\* the metrics it was given, in order, followed by one metric "AI Council
\* Review" of weight 0.4, whose score is the number of the first "score: N/100"
\* of the synthesis (80 without one) and whose confidence is the insights'
\* (0.8 without one); get_insights stores that number and the confidence 0.85.
C20_CouncilMetricAppended ==
    /\ (agg.op = "get_insights" /\ insights.present)
          => /\ insights.dict["synthesis"] = agg.outcome.synthesis
             /\ insights.dict["score"] = Parsed(agg.outcome.synthesis)
             /\ insights.dict["confidence"] = <<85>>
    /\ (agg.op = "enhance_metrics" /\ ~NoneOrEmpty(agg.council_insights))
          => LET dict == agg.council_insights.dict
                 n == Len(agg.metrics)
                 parsed == Parsed(Get(dict, "synthesis", <<Prose>>))
             IN  /\ Len(agg.ret) = n + 1
                 /\ SubSeq(agg.ret, 1, n) = agg.metrics
                 /\ \A j \in 1..n : agg.ret[j].name # "AI Council Review"
                 /\ agg.ret[n + 1].name = "AI Council Review"
                 /\ agg.ret[n + 1].weight = 40
                 /\ agg.ret[n + 1].score = IF parsed # << >> THEN parsed[1] ELSE 80
                 /\ agg.ret[n + 1].confidence
                      = IF "confidence" \in DOMAIN dict THEN dict["confidence"][1] ELSE 80

\* the council wrote "score: 0/100": the appended metric scores 0, not 80
C20_Witness ==
    /\ agg.op = "enhance_metrics"
    /\ agg.council_insights.present
    /\ agg.council_insights.dict # << >>
    /\ Len(agg.metrics) = 3
    /\ Len(agg.ret) = 4
    /\ agg.ret[4].name = "AI Council Review"
    /\ agg.ret[4].score = 0
    /\ agg.ret[4].confidence = 85

----------------------------------------------------------------------------
(* scorers/motive.py: MicroMotiveScorer *)

\* MicroMotiveScorer.generate_motive_evidence: the same statements as the
\* engine's _generate_motive_evidence
generate_motive_evidence(text, motive_type) == _generate_motive_evidence(text, motive_type)

\* mutant: the motive is appended whether or not an indicator was collected
MotiveBlock_always(motive_type, base, fired1, ind1, fired2, ind2, original_text, path) ==
    LET inds == (IF fired1 THEN <<ind1>> ELSE << >>) \o (IF fired2 THEN <<ind2>> ELSE << >>)
        str == base + Bonus(fired1, 20) + Bonus(fired2, 15)
    IN  <<MicroMotive(motive_type, Min(100, str), inds,
                      generate_motive_evidence(original_text, motive_type), path)>>

\* the block the analyzers repeat for a motive with two triggers:
\*   inds = []; str = base
\*   if <trigger 1>: inds.append(ind1); str += 0.2
\*   if <trigger 2>: inds.append(ind2); str += 0.15
\*   if inds: motives.append(MicroMotive(strength=min(1.0, str), indicators=inds, ...))
MotiveBlock(motive_type, base, fired1, ind1, fired2, ind2, original_text, path) ==
    LET inds == (IF fired1 THEN <<ind1>> ELSE << >>) \o (IF fired2 THEN <<ind2>> ELSE << >>)
        str == base + Bonus(fired1, 20) + Bonus(fired2, 15)
    IN  IF inds # << >>
        THEN <<MicroMotive(motive_type, Min(100, str), inds,
                           generate_motive_evidence(original_text, motive_type), path)>>
        ELSE << >>

_analyze_technical_motives(text_lower, original_text, path) ==
    MotiveBlock("mastery", 50,
                AnyIn({"algorithm", "optimize", "efficient", "complexity"}, text_lower),
                "Deep technical understanding",
                In("pattern", text_lower) \/ In("design", text_lower),
                "Design pattern awareness", original_text, path)
    \o MotiveBlock("quality", 40,
                   In("test", text_lower) \/ In("error", text_lower),
                   "Quality-focused approach",
                   In("clean", text_lower) \/ In("readable", text_lower),
                   "Code quality awareness", original_text, path)
    \o (IF In("optimize", text_lower) \/ In("performance", text_lower)
        THEN <<MicroMotive("efficiency", 60, <<"Performance optimization focus">>,
                           generate_motive_evidence(original_text, "efficiency"), path)>>
        ELSE << >>)

_analyze_design_motives(text_lower, original_text, path) ==
    MotiveBlock("innovation", 40,
                In("alternative", text_lower) \/ In("approach", text_lower),
                "Explores multiple approaches",
                In("creative", text_lower) \/ In("novel", text_lower),
                "Creative thinking", original_text, path)

_analyze_collaboration_motives(text_lower, original_text, path) ==
    MotiveBlock("collaboration", 40,
                In("document", text_lower) \/ In("comment", text_lower),
                "Documentation focus",
                In("team", text_lower) \/ In("collaborate", text_lower),
                "Team-oriented thinking", original_text, path)

_analyze_problem_solving_motives(text_lower, original_text, path) ==
    MotiveBlock("exploration", 40,
                In("explore", text_lower) \/ In("investigate", text_lower),
                "Exploratory approach",
                In("analyze", text_lower) \/ In("break", text_lower),
                "Analytical exploration", original_text, path)

\* MicroMotiveScorer.identify_micro_motives(path, input_data)
identify_micro_motives(path, input_data) ==
    LET submission_text == extract_text_content(input_data.content)
        text_lower == LowerText(submission_text)
    IN  CASE path = "technical" ->
               _analyze_technical_motives(text_lower, submission_text, path)
          [] path = "design" ->
               _analyze_design_motives(text_lower, submission_text, path)
          [] path = "collaboration" ->
               _analyze_collaboration_motives(text_lower, submission_text, path)
          [] path = "problem_solving" ->
               _analyze_problem_solving_motives(text_lower, submission_text, path)
          [] OTHER -> << >>

\* a caller of the two motive identifications
MotiveStart(content, path) ==
    [op |-> "motives", input_data |-> AssessmentInput(content, <<path>>), path |-> path,
     scorer |-> << >>, engine |-> << >>]

\* motives = MicroMotiveScorer().identify_micro_motives(path, input_data)
IdentifyMicroMotives ==
    /\ agg.op = "motives"
    /\ agg.scorer = << >>
    /\ agg' = [agg EXCEPT !.scorer = <<identify_micro_motives(agg.path, agg.input_data)>>]
    /\ UNCHANGED <<engine, input, result, memo, council, insights, pen, tasks, clock, heap>>

\* motives = engine._identify_micro_motives(path, input_data)
EngineIdentifyMicroMotives ==
    /\ agg.op = "motives"
    /\ agg.engine = << >>
    /\ agg' = [agg EXCEPT !.engine = <<_identify_micro_motives(agg.path, agg.input_data)>>]
    /\ UNCHANGED <<engine, input, result, memo, council, insights, pen, tasks, clock, heap>>

InitMotives ==
    /\ engine = AssessmentEngine
    /\ input = AssessmentInput(CHOOSE c \in Contents : c.repr # NoRepr, << >>)
    /\ result = NoResult
    /\ memo = NoMemo
    /\ council = CouncilIdle
    /\ insights = NoInsights
    /\ pen = PenIdle
    /\ agg \in {MotiveStart(c, p) : c \in AnyContents, p \in AnyPathType}
    /\ tasks = NoTasks
    /\ clock = 0
    /\ heap = NoHeap

NextMotives == IdentifyMicroMotives \/ EngineIdentifyMicroMotives

SpecMotives == InitMotives /\ [][NextMotives]_vars

\* the keyword triggers of a path: per motive type its base strength and, in
\* order, the words, the indicator and the delta of each trigger
Trigger(words, indicator, delta) == [words |-> words, indicator |-> indicator, delta |-> delta]

ScorerTriggers(path) ==
    CASE path = "technical" ->
           << [motive_type |-> "mastery", base |-> 50, triggers |->
                 << Trigger({"algorithm", "optimize", "efficient", "complexity"},
                            "Deep technical understanding", 20),
                    Trigger({"pattern", "design"}, "Design pattern awareness", 15) >>],
              [motive_type |-> "quality", base |-> 40, triggers |->
                 << Trigger({"test", "error"}, "Quality-focused approach", 20),
                    Trigger({"clean", "readable"}, "Code quality awareness", 15) >>],
              [motive_type |-> "efficiency", base |-> 60, triggers |->
                 << Trigger({"optimize", "performance"}, "Performance optimization focus", 0) >>] >>
      [] path = "design" ->
           << [motive_type |-> "innovation", base |-> 40, triggers |->
                 << Trigger({"alternative", "approach"}, "Explores multiple approaches", 20),
                    Trigger({"creative", "novel"}, "Creative thinking", 15) >>] >>
      [] path = "collaboration" ->
           << [motive_type |-> "collaboration", base |-> 40, triggers |->
                 << Trigger({"document", "comment"}, "Documentation focus", 20),
                    Trigger({"team", "collaborate"}, "Team-oriented thinking", 15) >>] >>
      [] path = "problem_solving" ->
           << [motive_type |-> "exploration", base |-> 40, triggers |->
                 << Trigger({"explore", "investigate"}, "Exploratory approach", 20),
                    Trigger({"analyze", "break"}, "Analytical exploration", 15) >>] >>
      [] OTHER -> << >>

\* the engine tests the first trigger of mastery (without "complexity"),
\* quality, innovation and collaboration only
EngineTriggers(path) ==
    CASE path = "technical" ->
           << [motive_type |-> "mastery", base |-> 50, triggers |->
                 << Trigger({"algorithm", "optimize", "efficient"},
                            "Deep technical understanding", 20) >>],
              [motive_type |-> "quality", base |-> 40, triggers |->
                 << Trigger({"test", "error"}, "Quality-focused approach", 20) >>] >>
      [] path = "design" ->
           << [motive_type |-> "innovation", base |-> 40, triggers |->
                 << Trigger({"alternative", "approach"}, "Explores multiple approaches", 20) >>] >>
      [] path = "collaboration" ->
           << [motive_type |-> "collaboration", base |-> 40, triggers |->
                 << Trigger({"document", "comment"}, "Documentation focus", 20) >>] >>
      [] OTHER -> << >>

\* the triggers of one motive that fire on a lowered text, in trigger order
Fired(triggers, text_lower) ==
    LET Fires(t) == AnyIn(t.words, text_lower)
    IN  SelectSeq(triggers, Fires)

\* what the claim lets a table emit on a text: per motive with a fired trigger
\* its type, its capped strength and its indicators
Emitted(table, text_lower, path) ==
    LET HasFired(m) == Fired(m.triggers, text_lower) # << >>
        Of(m, fired) ==
            [motive_type |-> m.motive_type,
             strength |-> Min(100, m.base + IntSum([i \in 1..Len(fired) |-> fired[i].delta])),
             indicators |-> [i \in 1..Len(fired) |-> fired[i].indicator],
             path_alignment |-> path]
        sel == SelectSeq(table, HasFired)
    IN  [i \in 1..Len(sel) |-> Of(sel[i], Fired(sel[i].triggers, text_lower))]

\* a motive list without the evidence
Bare(motives) ==
    [i \in 1..Len(motives) |->
        [motive_type |-> motives[i].motive_type, strength |-> motives[i].strength,
         indicators |-> motives[i].indicators, path_alignment |-> motives[i].path_alignment]]

\* C21: identify_micro_motives (MicroMotiveScorer's and the engine's) emits a
\* motive only when a trigger of its type fired on the path, with one indicator
\* per fired trigger in trigger order and the strength base + deltas capped at
\* 1.0, and [] for a path it does not know; technical text with "optimize" and
\* "algorithm" gives a mastery motive with "Deep technical understanding" and a
\* strength between 0.7 and 1.0.
C21_MotivesFollowTriggers ==
    agg.op = "motives" =>
        LET text_lower == LowerText(extract_text_content(agg.input_data.content))
            Checked(motives, table) ==
                /\ Bare(motives) = Emitted(table, text_lower, agg.path)
                /\ \A i \in 1..Len(motives) : motives[i].indicators # << >>
                /\ agg.path \notin PathType => motives = << >>
                /\ (agg.path = "technical" /\ In("optimize", text_lower)
                      /\ In("algorithm", text_lower))
                      => \E i \in 1..Len(motives) :
                            /\ motives[i].motive_type = "mastery"
                            /\ "Deep technical understanding" \in Range(motives[i].indicators)
                            /\ InRange(motives[i].strength, 70, 100)
        IN  /\ agg.scorer # << >> => Checked(agg.scorer[1], ScorerTriggers(agg.path))
            /\ agg.engine # << >> => Checked(agg.engine[1], EngineTriggers(agg.path))

\* the 18-line module on the technical path: mastery, quality and efficiency
\* from the scorer, mastery and quality from the engine
C21_Witness ==
    /\ agg.op = "motives"
    /\ agg.path = "technical"
    /\ agg.scorer # << >>
    /\ agg.engine # << >>
    /\ Len(agg.scorer[1]) = 3
    /\ Len(agg.engine[1]) = 2
    /\ agg.scorer[1][1].motive_type = "mastery"
    /\ agg.scorer[1][1].strength = 70
    /\ agg.engine[1][1].strength = 70

\* the position of the metric of a given name in a list (the names of a
\* battery differ), 0 when there is none
MetricIndex(metrics, name) ==
    LET at == {j \in 1..Len(metrics) : metrics[j].name = name}
    IN  IF at = {} THEN 0 ELSE CHOOSE j \in at : TRUE

\* whether the items of a derived list, which start with a metric name, follow
\* the order of the metrics and name no metric twice
InMetricOrder(items, metrics) ==
    /\ \A a \in 1..Len(items) : MetricIndex(metrics, items[a][1]) # 0
    /\ \A a, b \in 1..Len(items) :
          a < b => MetricIndex(metrics, items[a][1]) < MetricIndex(metrics, items[b][1])

\* C22: each metric of a path appears in exactly one of strengths and
\* areas_for_improvement: in strengths iff its score >= 75, in the other iff
\* its score < 75; both keep the order of the metrics, and their lengths add
\* up to the number of metrics.
C22_StrengthsPartitionMetrics ==
    result.returned =>
        \A i \in 1..Len(result.path_scores) :
            LET ps == result.path_scores[i]
                Named(items) == {items[a][1] : a \in 1..Len(items)}
            IN  /\ \A j \in 1..Len(ps.metrics) :
                      /\ (ps.metrics[j].name \in Named(ps.strengths))
                            <=> ps.metrics[j].score >= 75
                      /\ (ps.metrics[j].name \in Named(ps.areas_for_improvement))
                            <=> ps.metrics[j].score < 75
                /\ InMetricOrder(ps.strengths, ps.metrics)
                /\ InMetricOrder(ps.areas_for_improvement, ps.metrics)
                /\ Len(ps.strengths) + Len(ps.areas_for_improvement) = Len(ps.metrics)

\* a path with a metric scoring exactly 75 among its strengths and another
\* metric among its areas for improvement
C22_Witness ==
    /\ result.returned
    /\ \E i \in 1..Len(result.path_scores) :
          LET ps == result.path_scores[i]
          IN  /\ \E j \in 1..Len(ps.metrics) :
                    /\ ps.metrics[j].score = 75
                    /\ \E a \in 1..Len(ps.strengths) : ps.strengths[a][1] = ps.metrics[j].name
              /\ ps.areas_for_improvement # << >>

\* violations_to_metadata: [v.to_dict() for v in violations]; to_dict names the
\* fields again, one by one
violations_to_metadata(violations) ==
    [i \in 1..Len(violations) |->
        [k \in {"pattern", "line", "description", "severity", "confidence"} |->
            CASE k = "pattern" -> violations[i].pattern
              [] k = "line" -> violations[i].line
              [] k = "description" -> violations[i].description
              [] k = "severity" -> violations[i].severity
              [] OTHER -> violations[i].confidence]]

\* the pattern-check summary of a submission text
PatternSummary(text) ==
    LET Block(violations) ==
            [enabled |-> TRUE,
             violation_count |-> Len(violations),
             penalty_points |-> calculate_pattern_penalty(violations, DefaultWeights, 15),
             violations |-> violations_to_metadata(violations)]
    IN  Block(detect_pattern_violations(text, NoRules))

\* C23 (as stated): the metadata of every result of assess() holds the
\* assessment mode and a pattern-check summary: the enabled flag, the number of
\* violations detected, their penalty and the serialized violations (under a
\* key other than the mode string and the ml_available flag).
C23_MetadataHasPatternSummary ==
    result.returned =>
        /\ "assessment_mode" \in DOMAIN result.metadata
        /\ \E k \in DOMAIN result.metadata \ {"assessment_mode", "ml_available"} :
              result.metadata[k] = PatternSummary(_extract_text_content(input.content))

-----------------------------------------------------------------------------
(* llm/manager.py: LLMManager *)

\* the provider classes in the order _initialize_providers visits them
ProviderNames == <<"anthropic", "openai", "gemini">>

\* self.providers after _initialize_providers: the names whose provider could
\* be built and is_available(), in insertion order
_initialize_providers(available) == SelectSeq(ProviderNames, LAMBDA n : n \in available)

\* a str argument that `x or default` keeps: neither None nor ""
Given(x) == x # "None" /\ x # ""

\* LLMManager(preferred_provider) with LLM_PROVIDER unset or set to `env`
LLMManager(preferred_provider, env, available) ==
    [providers |-> _initialize_providers(available),
     preferred_provider |-> IF Given(preferred_provider) THEN preferred_provider
                            ELSE IF Given(env) THEN env ELSE "anthropic"]

\* what a call of generate did: the providers whose complete() it awaited, in
\* order, and how it ended
Returned(calls, name) == [calls |-> Append(calls, name), returned |-> name, raised |-> "None", from |-> "None"]
Raised(calls, type, from) == [calls |-> calls, returned |-> "None", raised |-> type, from |-> from]

\* the fallback loop without `if name == target_provider: continue`
RECURSIVE FallbackLoop_retry(_, _, _, _, _)
FallbackLoop_retry(providers, target_provider, works, i, calls) ==
    IF i > Len(providers) THEN Raised(calls, "RuntimeError", "LLMManager")
    ELSE IF works[providers[i]] THEN Returned(calls, providers[i])
    ELSE FallbackLoop_retry(providers, target_provider, works, i + 1, Append(calls, providers[i]))

\* `for name, prov in self.providers.items()` from the i-th item on, and the
\* final raise
RECURSIVE FallbackLoop(_, _, _, _, _)
FallbackLoop(providers, target_provider, works, i, calls) ==
    IF i > Len(providers) THEN Raised(calls, "RuntimeError", "LLMManager")
    ELSE IF providers[i] = target_provider
         THEN FallbackLoop(providers, target_provider, works, i + 1, calls)
    ELSE IF works[providers[i]] THEN Returned(calls, providers[i])
    ELSE FallbackLoop(providers, target_provider, works, i + 1, Append(calls, providers[i]))

\* generate(system_prompt, user_prompt, provider, fallback); works[n] tells
\* whether complete() of provider n returns (or raises an Exception)
generate(self, provider, fallback, works) ==
    IF self.providers = << >> THEN Raised(<< >>, "RuntimeError", "LLMManager")
    ELSE
      LET target_provider == IF Given(provider) THEN provider ELSE self.preferred_provider
          Rest(calls) ==
              IF fallback THEN FallbackLoop(self.providers, target_provider, works, 1, calls)
              ELSE Raised(calls, "RuntimeError", "LLMManager")
      IN  IF target_provider \in Range(self.providers)
          THEN IF works[target_provider] THEN Returned(<< >>, target_provider)
               ELSE IF ~fallback THEN Raised(<<target_provider>>, "Exception", target_provider)
               ELSE Rest(<<target_provider>>)
          ELSE Rest(<< >>)

\* the provider arguments of the callers: absent, empty, registered or not
ProviderArgs == {"None", "", "anthropic", "openai", "gemini", "mistral"}

\* the assessment side is idle while the other managers are exercised
InitAssessmentIdle ==
    /\ engine = AssessmentEngine
    /\ input = AssessmentInput(CHOOSE c \in Contents : c.repr # NoRepr, << >>)
    /\ result = NoResult
    /\ memo = NoMemo
    /\ council = CouncilIdle
    /\ insights = NoInsights
    /\ pen = PenIdle

\* await manager.generate(..., provider=provider, fallback=fallback)
Generate ==
    \E provider \in ProviderArgs, fallback \in BOOLEAN, works \in [Range(ProviderNames) -> BOOLEAN] :
        /\ agg' = [op |-> "generate", provider |-> provider, fallback |-> fallback,
                   works |-> works, out |-> generate(heap, provider, fallback, works)]
        /\ UNCHANGED <<engine, input, result, memo, council, insights, pen, tasks, clock, heap>>

\* _manager = None; get_llm_manager(preferred_provider) builds the manager anew
GetLLMManager ==
    \E p \in {"None", "openai", "mistral"}, env \in {"None", "gemini"}, a \in SUBSET Range(ProviderNames) :
        /\ heap' = LLMManager(p, env, a)
        /\ agg' = AggIdle
        /\ UNCHANGED <<engine, input, result, memo, council, insights, pen, tasks, clock>>

InitLLM ==
    /\ InitAssessmentIdle
    /\ agg = AggIdle
    /\ tasks = NoTasks
    /\ clock = 0
    /\ heap \in {LLMManager("None", "None", a) : a \in SUBSET Range(ProviderNames)}

NextLLM == Generate \/ GetLLMManager

SpecLLM == InitLLM /\ [][NextLLM]_vars

\* the providers the call is to try, in order: the target when it is
\* registered, then the other registered ones in registration order
TryOrder(self, provider) ==
    LET target == IF Given(provider) THEN provider ELSE self.preferred_provider
    IN  (IF target \in Range(self.providers) THEN <<target>> ELSE << >>)
           \o SelectSeq(self.providers, LAMBDA n : n # target)

\* the position of the first provider of the order that works, 0 when none
FirstWorking(order, works) ==
    IF \E i \in 1..Len(order) : works[order[i]]
    THEN CHOOSE i \in 1..Len(order) : works[order[i]] /\ \A j \in 1..(i - 1) : ~works[order[j]]
    ELSE 0

\* C24: with fallback, generate returns the response of the first provider that
\* works among the target (the given argument, else the preferred provider)
\* and then the other registered providers in registration order, having tried
\* each provider before it once and none after it; it raises RuntimeError
\* exactly when no provider is registered or every registered one failed.
\* Without fallback, a failure of the target is re-raised and no other
\* provider is tried.
C24_GenerateFallsBackInOrder ==
    agg.op = "generate" =>
        LET order == TryOrder(heap, agg.provider)
            k == FirstWorking(order, agg.works)
            out == agg.out
            target == IF Given(agg.provider) THEN agg.provider ELSE heap.preferred_provider
        IN  /\ agg.fallback =>
                /\ k > 0 => /\ out.returned = order[k]
                            /\ out.calls = SubSeq(order, 1, k)
                            /\ out.raised = "None"
                /\ k = 0 => /\ out.returned = "None"
                            /\ out.calls = order
                /\ (out.raised = "RuntimeError" /\ out.from = "LLMManager")
                       <=> (heap.providers = << >> \/ \A n \in Range(heap.providers) : ~agg.works[n])
                /\ Cardinality(Range(out.calls)) = Len(out.calls)
            /\ ~agg.fallback =>
                /\ Range(out.calls) \subseteq {target}
                /\ Len(out.calls) <= 1
                /\ (target \in Range(heap.providers) /\ ~agg.works[target]) =>
                       /\ out.raised = "Exception"
                       /\ out.from = target
                       /\ out.calls = <<target>>
                /\ (target \in Range(heap.providers) /\ agg.works[target]) =>
                       out.returned = target

\* a call that fell back twice: the preferred provider, which is not the first
\* registered one, failed, the next one failed, the third one answered
C24_Witness ==
    /\ agg.op = "generate"
    /\ agg.fallback
    /\ Len(agg.out.calls) = 3
    /\ agg.out.returned = agg.out.calls[3]
    /\ agg.out.calls[1] = heap.preferred_provider
    /\ agg.out.calls[1] # heap.providers[1]

-----------------------------------------------------------------------------
(* config/presets.py: PresetManager *)

\* STANDARD_PRESETS: each value is held as its Python repr
STANDARD_PRESETS ==
    ("quick_test" :> ("APP_ENV" :> "'development'" @@ "DEBUG" :> "True" @@ "LOG_LEVEL" :> "'ERROR'" @@ "API_WORKERS" :> "1" @@ "API_PORT" :> "8000")
    @@ "development" :> ("APP_ENV" :> "'development'" @@ "DEBUG" :> "True" @@ "LOG_LEVEL" :> "'INFO'" @@ "API_WORKERS" :> "2" @@ "API_PORT" :> "8000")
    @@ "testing" :> ("APP_ENV" :> "'testing'" @@ "DEBUG" :> "False" @@ "LOG_LEVEL" :> "'WARNING'" @@ "API_WORKERS" :> "1" @@ "API_PORT" :> "8001")
    @@ "staging" :> ("APP_ENV" :> "'staging'" @@ "DEBUG" :> "False" @@ "LOG_LEVEL" :> "'INFO'" @@ "API_WORKERS" :> "3" @@ "API_PORT" :> "8000")
    @@ "production" :> ("APP_ENV" :> "'production'" @@ "DEBUG" :> "False" @@ "LOG_LEVEL" :> "'INFO'" @@ "API_WORKERS" :> "4" @@ "API_PORT" :> "8000")
    @@ "high_performance" :> ("APP_ENV" :> "'production'" @@ "DEBUG" :> "False" @@ "LOG_LEVEL" :> "'WARNING'" @@ "API_WORKERS" :> "8" @@ "API_PORT" :> "8000")
    @@ "low_resource" :> ("APP_ENV" :> "'development'" @@ "DEBUG" :> "True" @@ "LOG_LEVEL" :> "'ERROR'" @@ "API_WORKERS" :> "1" @@ "API_PORT" :> "8000")
    @@ "ml_development" :> ("APP_ENV" :> "'development'" @@ "DEBUG" :> "True" @@ "LOG_LEVEL" :> "'DEBUG'" @@ "API_WORKERS" :> "2" @@ "API_PORT" :> "8000")
    @@ "sono_platform_sensor" :> ("APP_ENV" :> "'development'" @@ "DEBUG" :> "False" @@ "LOG_LEVEL" :> "'INFO'" @@ "PATTERN_CHECKS_ENABLED" :> "True" @@ "ASSESSMENT_ENABLED" :> "True" @@ "COUNCIL_DOMAIN" :> "'sonotheia'")
    @@ "sono_eval_assessment" :> ("APP_ENV" :> "'development'" @@ "DEBUG" :> "False" @@ "LOG_LEVEL" :> "'INFO'" @@ "DARK_HORSE_MODE" :> "'enabled'" @@ "PATTERN_CHECKS_ENABLED" :> "True" @@ "ASSESSMENT_ENABLE_EXPLANATIONS" :> "True")
    @@ "feedback_loop_patterns" :> ("APP_ENV" :> "'development'" @@ "DEBUG" :> "False" @@ "LOG_LEVEL" :> "'INFO'" @@ "PATTERN_LIBRARY_PATH" :> "'patterns.json'" @@ "MEMORY_ENABLED" :> "False"))

\* PRESET_DESCRIPTIONS as the module is loaded
PRESET_DESCRIPTIONS ==
    ("quick_test" :> "Fast setup for quick testing (minimal features, fast startup)"
    @@ "development" :> "Full-featured development environment (all features enabled)"
    @@ "testing" :> "Optimized for running tests (fast, minimal resources)"
    @@ "staging" :> "Pre-production environment (production-like but with debugging)"
    @@ "production" :> "Production-ready configuration (optimized, secure)"
    @@ "high_performance" :> "Maximum performance (more workers, aggressive caching)"
    @@ "low_resource" :> "Minimal resource usage (single worker, no ML models)"
    @@ "ml_development" :> "ML model development and training (ML features enabled)"
    @@ "sono_platform_sensor" :> "Sono-platform sensor development preset (pattern checks, assessment enabled)"
    @@ "sono_eval_assessment" :> "Sono-eval assessment preset (Dark Horse mode, pattern checks, explanations)"
    @@ "feedback_loop_patterns" :> "Feedback-loop pattern library preset (pattern management enabled)")

\* del d[k] and d[k] = v on a dict
DictDel(d, k) == [j \in DOMAIN d \ {k} |-> d[j]]
DictSet(d, k, v) == [j \in DOMAIN d \cup {k} |-> IF j = k THEN v ELSE d[j]]

\* a reference to a dict object as a caller holds it: `ref` tells which object
\* it is ("own": an object nobody else refers to), `dict` what it holds
Copy(d) == [ref |-> "own", dict |-> d]

\* PresetManager(): self.presets is a shallow copy of STANDARD_PRESETS
PresetManager == [presets |-> STANDARD_PRESETS, custom_presets |-> << >>]

\* get_preset without the .copy() of the two returns
get_preset_nocopy(self, m, preset_name) ==
    IF preset_name \in DOMAIN self.presets
    THEN [raised |-> "None", value |-> [ref |-> <<"presets", preset_name>>, dict |-> self.presets[preset_name]]]
    ELSE IF preset_name \in DOMAIN self.custom_presets
    THEN [raised |-> "None", value |-> [ref |-> <<"custom_presets", m, preset_name>>, dict |-> self.custom_presets[preset_name]]]
    ELSE [raised |-> "ValueError", value |-> Copy(<< >>)]

\* self.get_preset(preset_name), self being the m-th instance
get_preset(self, m, preset_name) ==
    IF preset_name \in DOMAIN self.presets
    THEN [raised |-> "None", value |-> Copy(self.presets[preset_name])]
    ELSE IF preset_name \in DOMAIN self.custom_presets
    THEN [raised |-> "None", value |-> Copy(self.custom_presets[preset_name])]
    ELSE [raised |-> "ValueError", value |-> Copy(<< >>)]

\* self.list_presets(); descriptions is the module's PRESET_DESCRIPTIONS
list_presets(descriptions, self) ==
    [name \in DOMAIN descriptions \cup DOMAIN self.custom_presets |->
        IF name \in DOMAIN self.custom_presets THEN "Custom preset: " \o name
        ELSE descriptions[name]]

\* self.save_preset(name, values, description): the instance and the module's
\* PRESET_DESCRIPTIONS afterwards
save_preset(descriptions, self, name, values, description) ==
    [self |-> [self EXCEPT !.custom_presets = DictSet(self.custom_presets, name, values)],
     descriptions |-> IF Given(description) THEN DictSet(descriptions, name, description)
                      ELSE descriptions]

\* self.delete_preset(name)
delete_preset(descriptions, self, name) ==
    IF name \notin DOMAIN self.custom_presets
    THEN [raised |-> "KeyError", self |-> self, descriptions |-> descriptions]
    ELSE [raised |-> "None",
          self |-> [self EXCEPT !.custom_presets = DictDel(self.custom_presets, name)],
          descriptions |-> IF name \in DOMAIN descriptions THEN DictDel(descriptions, name)
                           ELSE descriptions]

\* the PresetManager instances a process may build
MaxManagers == 2

\* what the callers save, and what they ask for
SaveNames == {"development", "custom"}
SaveValues == {"CUSTOM_KEY" :> "'value'", "KEY" :> "'value'"}
SaveDescriptions == {"None", "Custom description"}
AskNames == SaveNames \cup {"invalid_preset"}

\* manager = PresetManager()
NewPresetManager ==
    /\ Len(heap.managers) < MaxManagers
    /\ heap' = [heap EXCEPT !.managers = Append(@, PresetManager)]
    /\ agg' = [op |-> "PresetManager", m |-> Len(heap.managers) + 1]
    /\ UNCHANGED <<engine, input, result, memo, council, insights, pen, tasks, clock>>

\* manager.save_preset(name, values, description)
SavePreset ==
    \E m \in DOMAIN heap.managers, name \in SaveNames, values \in SaveValues, description \in SaveDescriptions :
        LET after == save_preset(heap.PRESET_DESCRIPTIONS, heap.managers[m], name, values, description)
        IN  /\ heap' = [heap EXCEPT !.managers[m] = after.self,
                                    !.PRESET_DESCRIPTIONS = after.descriptions]
            /\ agg' = [op |-> "save_preset", m |-> m, name |-> name, held |-> Copy(values),
                       returned |-> values, raised |-> "None"]
            /\ UNCHANGED <<engine, input, result, memo, council, insights, pen, tasks, clock>>

\* preset = manager.get_preset(name)
GetPreset ==
    \E m \in DOMAIN heap.managers, name \in AskNames :
        LET r == get_preset(heap.managers[m], m, name)
        IN  /\ agg' = [op |-> "get_preset", m |-> m, name |-> name, held |-> r.value,
                       returned |-> r.value.dict, raised |-> r.raised]
            /\ UNCHANGED <<engine, input, result, memo, council, insights, pen, tasks, clock, heap>>

\* manager.delete_preset(name)
DeletePreset ==
    \E m \in DOMAIN heap.managers, name \in AskNames :
        LET after == delete_preset(heap.PRESET_DESCRIPTIONS, heap.managers[m], name)
        IN  /\ heap' = [heap EXCEPT !.managers[m] = after.self,
                                    !.PRESET_DESCRIPTIONS = after.descriptions]
            /\ agg' = [op |-> "delete_preset", m |-> m, name |-> name, held |-> Copy(<< >>),
                       returned |-> << >>, raised |-> after.raised]
            /\ UNCHANGED <<engine, input, result, memo, council, insights, pen, tasks, clock>>

\* preset["DEBUG"] = "changed" on the dict the caller got from get_preset or
\* gave to save_preset: the object `held` refers to changes
ChangeHeld ==
    /\ agg.op \in {"get_preset", "save_preset"}
    /\ agg.raised = "None"
    /\ LET d == DictSet(agg.held.dict, "DEBUG", "'changed'")
           ref == agg.held.ref
       IN  /\ agg' = [agg EXCEPT !.op = "changed", !.held.dict = d]
           /\ heap' = IF ref = "own" THEN heap
                      ELSE IF ref[1] = "presets"
                      THEN [heap EXCEPT !.managers =
                               [i \in DOMAIN @ |-> [@[i] EXCEPT !.presets[ref[2]] = d]]]
                      ELSE [heap EXCEPT !.managers[ref[2]].custom_presets[ref[3]] = d]
    /\ UNCHANGED <<engine, input, result, memo, council, insights, pen, tasks, clock>>

InitPresets ==
    /\ InitAssessmentIdle
    /\ agg = [op |-> "PresetManager", m |-> 1]
    /\ tasks = NoTasks
    /\ clock = 0
    /\ heap = [PRESET_DESCRIPTIONS |-> PRESET_DESCRIPTIONS, managers |-> <<PresetManager>>]

NextPresets == NewPresetManager \/ SavePreset \/ GetPreset \/ DeletePreset \/ ChangeHeld

SpecPresets == InitPresets /\ [][NextPresets]_vars

\* C25 (as stated): right after save_preset(name, values), get_preset(name)
\* returns a dict equal to values and list_presets() has name; right after a
\* delete_preset(name) that followed, get_preset(name) raises ValueError; and
\* after the caller changed a dict it got or gave, get_preset(name) still
\* returns what it returned or was given.
C25_SaveGetDeleteRoundTrip ==
    agg.op \in {"save_preset", "delete_preset", "changed"} =>
        LET self == heap.managers[agg.m]
            now == get_preset(self, agg.m, agg.name)
        IN  /\ agg.op = "save_preset" =>
                /\ now.raised = "None"
                /\ now.value.dict = agg.returned
                /\ agg.name \in DOMAIN list_presets(heap.PRESET_DESCRIPTIONS, self)
            /\ (agg.op = "delete_preset" /\ agg.raised = "None") => now.raised = "ValueError"
            /\ agg.op = "changed" =>
                /\ now.raised = "None"
                /\ now.value.dict = agg.returned

\* the same for the names that are not standard presets
C25_CustomNamesRoundTrip ==
    (agg.op \in {"save_preset", "delete_preset", "changed"} /\ agg.name \notin DOMAIN STANDARD_PRESETS) =>
        C25_SaveGetDeleteRoundTrip

\* C30 (as stated): for every instance, list_presets() names exactly the names
\* for which its get_preset() succeeds.
C30_ListedIsGettable ==
    \A m \in DOMAIN heap.managers :
        LET self == heap.managers[m]
        IN  DOMAIN list_presets(heap.PRESET_DESCRIPTIONS, self)
              = {n \in DOMAIN STANDARD_PRESETS \cup AskNames : get_preset(self, m, n).raised = "None"}

-----------------------------------------------------------------------------
(* patterns/manager.py: PatternManager *)

\* list.remove(x): the list without its first item equal to x
ListRemove(list, x) ==
    LET i == CHOOSE i \in 1..Len(list) : list[i] = x /\ \A j \in 1..(i - 1) : list[j] # x
    IN  SubSeq(list, 1, i - 1) \o SubSeq(list, i + 1, Len(list))

\* PatternManager(path) where no library file exists; uuids counts the ids
\* uuid.uuid4() has handed out
PatternManager == [patterns |-> << >>, changelog |-> << >>, uuids |-> 0]

\* _find_pattern_by_id: the position of the first pattern with that id, 0 for None
_find_pattern_by_id(self, pattern_id) ==
    IF \E i \in 1..Len(self.patterns) : self.patterns[i]["pattern_id"] = pattern_id
    THEN CHOOSE i \in 1..Len(self.patterns) :
             /\ self.patterns[i]["pattern_id"] = pattern_id
             /\ \A j \in 1..(i - 1) : self.patterns[j]["pattern_id"] # pattern_id
    ELSE 0

\* _add_changelog_entry(action, pattern_name) at time now
_add_changelog_entry(self, action, pattern_name, now) ==
    [self EXCEPT !.changelog = Append(@, [action |-> action, pattern_name |-> pattern_name,
                                          timestamp |-> now])]

\* add_pattern(name, description, good_example) with the defaults of the
\* other arguments
add_pattern(self, now, name, description, good_example) ==
    LET pattern == [pattern_id |-> <<"uuid", self.uuids + 1>>, name |-> name,
                    description |-> description, good_example |-> good_example,
                    bad_example |-> "", severity |-> "medium", tags |-> << >>,
                    occurrence_frequency |-> 0, effectiveness_score |-> 50,
                    created_at |-> now, last_occurrence |-> "None"]
        appended == [self EXCEPT !.patterns = Append(@, pattern), !.uuids = @ + 1]
    IN  [self |-> _add_changelog_entry(appended, "added", name, now), returned |-> pattern]

\* None where a pattern dict is expected
NoPattern == [none |-> TRUE]

\* update_pattern(pattern_id, description=..., severity=...)
update_pattern(self, now, pattern_id, description, severity) ==
    LET i == _find_pattern_by_id(self, pattern_id)
    IN  IF i = 0 THEN [self |-> self, returned |-> NoPattern]
        ELSE LET p1 == IF description # "None"
                       THEN DictSet(self.patterns[i], "description", description)
                       ELSE self.patterns[i]
                 p2 == IF severity # "None" THEN DictSet(p1, "severity", severity) ELSE p1
                 updated == [self EXCEPT !.patterns[i] = p2]
             IN  [self |-> _add_changelog_entry(updated, "updated", p2["name"], now),
                  returned |-> p2]

\* remove_pattern that removes the last pattern of the list
remove_pattern_last(self, now, pattern_id) ==
    LET i == _find_pattern_by_id(self, pattern_id)
    IN  IF i = 0 THEN [self |-> self, returned |-> FALSE]
        ELSE LET removed == [self EXCEPT !.patterns = SubSeq(@, 1, Len(@) - 1)]
             IN  [self |-> _add_changelog_entry(removed, "removed", self.patterns[i]["name"], now),
                  returned |-> TRUE]

\* remove_pattern(pattern_id)
remove_pattern(self, now, pattern_id) ==
    LET i == _find_pattern_by_id(self, pattern_id)
    IN  IF i = 0 THEN [self |-> self, returned |-> FALSE]
        ELSE LET removed == [self EXCEPT !.patterns = ListRemove(@, self.patterns[i])]
             IN  [self |-> _add_changelog_entry(removed, "removed", self.patterns[i]["name"], now),
                  returned |-> TRUE]

\* archive_pattern(pattern_id)
archive_pattern(self, now, pattern_id) ==
    LET i == _find_pattern_by_id(self, pattern_id)
    IN  IF i = 0 THEN [self |-> self, returned |-> FALSE]
        ELSE LET p == DictSet(DictSet(self.patterns[i], "archived", TRUE), "archived_at", now)
                 archived == [self EXCEPT !.patterns[i] = p]
             IN  [self |-> _add_changelog_entry(archived, "archived", p["name"], now),
                  returned |-> TRUE]

\* the add_pattern calls of one manager
MaxPatterns == 2

\* the changelog entries of one manager
MaxChangelog == 4

\* the ids the callers pass: those handed out so far and one that never was
PatternIds == {<<"uuid", n>> : n \in 0..MaxPatterns}

\* a call on the manager: what it was given, what the manager was before it,
\* what it returned
PatternCall(op, pattern_id, r) ==
    [op |-> op, pattern_id |-> pattern_id, before |-> heap, returned |-> r.returned]

AddPattern ==
    /\ heap.uuids < MaxPatterns
    /\ Len(heap.changelog) < MaxChangelog
    /\ \E name \in {"test_pattern", "other_pattern"} :
          LET r == add_pattern(heap, clock, name, "Test", "def good(): pass")
          IN  /\ heap' = r.self
              /\ agg' = PatternCall("add_pattern", r.returned["pattern_id"], r)
    /\ UNCHANGED <<engine, input, result, memo, council, insights, pen, tasks, clock>>

UpdatePattern ==
    /\ Len(heap.changelog) < MaxChangelog
    /\ \E pattern_id \in PatternIds, description \in {"None", "New description"}, severity \in {"None", "high"} :
          LET r == update_pattern(heap, clock, pattern_id, description, severity)
          IN  /\ heap' = r.self
              /\ agg' = PatternCall("update_pattern", pattern_id, r)
    /\ UNCHANGED <<engine, input, result, memo, council, insights, pen, tasks, clock>>

RemovePattern ==
    /\ Len(heap.changelog) < MaxChangelog
    /\ \E pattern_id \in PatternIds :
          LET r == remove_pattern(heap, clock, pattern_id)
          IN  /\ heap' = r.self
              /\ agg' = PatternCall("remove_pattern", pattern_id, r)
    /\ UNCHANGED <<engine, input, result, memo, council, insights, pen, tasks, clock>>

ArchivePattern ==
    /\ Len(heap.changelog) < MaxChangelog
    /\ \E pattern_id \in PatternIds :
          LET r == archive_pattern(heap, clock, pattern_id)
          IN  /\ heap' = r.self
              /\ agg' = PatternCall("archive_pattern", pattern_id, r)
    /\ UNCHANGED <<engine, input, result, memo, council, insights, pen, tasks, clock>>

InitPatterns ==
    /\ InitAssessmentIdle
    /\ agg = AggIdle
    /\ tasks = NoTasks
    /\ clock = 0
    /\ heap = PatternManager

NextPatterns == Tick \/ AddPattern \/ UpdatePattern \/ RemovePattern \/ ArchivePattern

SpecPatterns == InitPatterns /\ [][NextPatterns]_vars

\* the ids of the patterns of a manager, in list order
IdsOf(self) == [i \in 1..Len(self.patterns) |-> self.patterns[i]["pattern_id"]]

\* C26: remove_pattern returns True and takes out exactly the pattern with the
\* given id (the others stay, in order) when there is one, and returns False
\* leaving patterns and changelog as they were when there is none;
\* update_pattern and archive_pattern on an unknown id return None/False and
\* change nothing, and on a known id the pattern keeps its pattern_id.
C26_RemoveUpdateArchiveById ==
    agg.op \in {"remove_pattern", "update_pattern", "archive_pattern"} =>
        LET before == agg.before
            known == agg.pattern_id \in Range(IdsOf(before))
            Same == heap.patterns = before.patterns /\ heap.changelog = before.changelog
        IN  /\ (agg.op = "remove_pattern" /\ known) =>
                /\ agg.returned = TRUE
                /\ agg.pattern_id \notin Range(IdsOf(heap))
                /\ heap.patterns = SelectSeq(before.patterns, LAMBDA p : p["pattern_id"] # agg.pattern_id)
                /\ Len(heap.patterns) = Len(before.patterns) - 1
            /\ (agg.op = "remove_pattern" /\ ~known) => (agg.returned = FALSE /\ Same)
            /\ (agg.op = "archive_pattern" /\ ~known) => (agg.returned = FALSE /\ Same)
            /\ (agg.op = "update_pattern" /\ ~known) => (agg.returned = NoPattern /\ Same)
            /\ (agg.op \in {"update_pattern", "archive_pattern"} /\ known) =>
                /\ IdsOf(heap) = IdsOf(before)
                /\ agg.op = "archive_pattern" => agg.returned = TRUE
                /\ agg.op = "update_pattern" => (agg.returned # NoPattern /\ agg.returned["pattern_id"] = agg.pattern_id)

\* the first of two patterns was removed; the second one is still there
C26_Witness ==
    /\ agg.op = "remove_pattern"
    /\ Len(agg.before.patterns) = 2
    /\ agg.pattern_id = agg.before.patterns[1]["pattern_id"]
    /\ agg.returned = TRUE
    /\ "archived" \in DOMAIN heap.patterns[1]

-----------------------------------------------------------------------------
(* api/middleware.py: create_cors_middleware *)

\* an Optional[List[str]] argument: None, or a list
NoList == [given |-> FALSE]
SomeList(list) == [given |-> TRUE, list |-> list]

\* x or default, for an Optional[List[str]]
OrDefault(x, default) == IF x.given /\ x.list # << >> THEN x.list ELSE default

CorsRaised(message) == [raised |-> "ValueError", message |-> message]
CorsConfig(allow_origins, allow_credentials, allow_methods, allow_headers) ==
    [raised |-> "None", allow_origins |-> allow_origins, allow_credentials |-> allow_credentials,
     allow_methods |-> OrDefault(allow_methods, <<"GET", "POST", "PUT", "DELETE", "OPTIONS">>),
     allow_headers |-> OrDefault(allow_headers, <<"*">>)]

\* create_cors_middleware whose production check is only `"*" in allowed_origins`
create_cors_middleware_nonempty(allowed_origins, app_env, allow_credentials, allow_methods, allow_headers) ==
    IF ~allowed_origins.given /\ app_env = "production"
    THEN CorsRaised("ALLOWED_ORIGINS must be configured in production. Set specific domains.")
    ELSE LET origins == IF allowed_origins.given THEN allowed_origins.list ELSE <<"*">>
         IN  IF app_env = "production" /\ "*" \in Range(origins)
             THEN CorsRaised("ALLOWED_ORIGINS must be set to specific origins in production environment")
             ELSE CorsConfig(origins, allow_credentials, allow_methods, allow_headers)

create_cors_middleware(allowed_origins, app_env, allow_credentials, allow_methods, allow_headers) ==
    IF ~allowed_origins.given /\ app_env = "production"
    THEN CorsRaised("ALLOWED_ORIGINS must be configured in production. Set specific domains.")
    ELSE LET origins == IF allowed_origins.given THEN allowed_origins.list ELSE <<"*">>
         IN  IF app_env = "production" /\ (origins = << >> \/ "*" \in Range(origins))
             THEN CorsRaised("ALLOWED_ORIGINS must be set to specific origins in production environment")
             ELSE CorsConfig(origins, allow_credentials, allow_methods, allow_headers)

\* the origins a caller lists
MaxOrigins == 2

Origins == {"*", "https://example.com", "https://app.example.com"}
OriginArgs == {NoList} \cup {SomeList(l) : l \in SeqsUpTo(Origins, MaxOrigins)}
AppEnvs == {"production", "development", "Production", "staging"}

CorsStart(allowed_origins, app_env, allow_credentials, allow_methods) ==
    [op |-> "cors", allowed_origins |-> allowed_origins, app_env |-> app_env,
     allow_credentials |-> allow_credentials, allow_methods |-> allow_methods,
     allow_headers |-> NoList, out |-> << >>]

\* config = create_cors_middleware(allowed_origins, app_env, ...)
CreateCorsMiddleware ==
    /\ agg.op = "cors"
    /\ agg.out = << >>
    /\ agg' = [agg EXCEPT !.out = <<create_cors_middleware(agg.allowed_origins, agg.app_env,
                                       agg.allow_credentials, agg.allow_methods, agg.allow_headers)>>]
    /\ UNCHANGED <<engine, input, result, memo, council, insights, pen, tasks, clock, heap>>

InitCors ==
    /\ InitAssessmentIdle
    /\ agg \in {CorsStart(o, e, c, m) : o \in OriginArgs, e \in AppEnvs, c \in BOOLEAN,
                                       m \in {NoList, SomeList(<<"GET">>)}}
    /\ tasks = NoTasks
    /\ clock = 0
    /\ heap = NoHeap

NextCors == CreateCorsMiddleware

SpecCors == InitCors /\ [][NextCors]_vars

\* C27: with app_env "production", create_cors_middleware raises ValueError
\* when allowed_origins is missing, empty or holds "*", and otherwise returns
\* the given origins unchanged; with any other app_env it returns the given
\* origins unchanged, and ["*"] when none were given.
C27_ProductionNeedsExplicitOrigins ==
    (agg.op = "cors" /\ agg.out # << >>) =>
        LET out == agg.out[1]
            given == agg.allowed_origins
            insecure == ~given.given \/ given.list = << >> \/ "*" \in Range(given.list)
        IN  /\ agg.app_env = "production" =>
                /\ insecure <=> out.raised = "ValueError"
                /\ ~insecure => out.allow_origins = given.list
            /\ agg.app_env # "production" =>
                /\ out.raised = "None"
                /\ given.given => out.allow_origins = given.list
                /\ ~given.given => out.allow_origins = <<"*">>

\* production with an empty list of origins was refused
C27_Witness ==
    /\ agg.op = "cors"
    /\ agg.out # << >>
    /\ agg.app_env = "production"
    /\ agg.allowed_origins = SomeList(<< >>)
    /\ agg.out[1].raised = "ValueError"

-----------------------------------------------------------------------------
(* api/rate_limit.py: RateLimiter *)

\* RateLimiter(requests_per_minute, requests_per_hour, requests_per_day)
RateLimiter(requests_per_minute, requests_per_hour, requests_per_day) ==
    [requests_per_minute |-> requests_per_minute, requests_per_hour |-> requests_per_hour,
     requests_per_day |-> requests_per_day,
     minute_requests |-> << >>, hour_requests |-> << >>, day_requests |-> << >>]

\* d[key] on a defaultdict(list)
GetList(d, key) == IF key \in DOMAIN d THEN d[key] ELSE << >>

\* _cleanup_old_requests(requests, window_seconds) when time.time() reads now:
\* what the list holds afterwards
_cleanup_old_requests(requests, window_seconds, now) ==
    SelectSeq(requests, LAMBDA req_time : req_time > now - window_seconds)

\* is_allowed(identifier); t holds what the four calls of time.time() read:
\* t[1] in is_allowed, t[2], t[3], t[4] in the clean-ups of the minute, hour
\* and day lists
is_allowed(self, identifier, t) ==
    LET minute == _cleanup_old_requests(GetList(self.minute_requests, identifier), 60, t[2])
        s1 == [self EXCEPT !.minute_requests = DictSet(@, identifier, minute)]
    IN  IF Len(minute) >= self.requests_per_minute THEN [self |-> s1, returned |-> FALSE]
        ELSE
        LET hour == _cleanup_old_requests(GetList(self.hour_requests, identifier), 3600, t[3])
            s2 == [s1 EXCEPT !.hour_requests = DictSet(@, identifier, hour)]
        IN  IF Len(hour) >= self.requests_per_hour THEN [self |-> s2, returned |-> FALSE]
            ELSE
            LET day == _cleanup_old_requests(GetList(self.day_requests, identifier), 86400, t[4])
                s3 == [s2 EXCEPT !.day_requests = DictSet(@, identifier, day)]
            IN  IF Len(day) >= self.requests_per_day THEN [self |-> s3, returned |-> FALSE]
                ELSE [self |-> [s3 EXCEPT
                                   !.minute_requests = DictSet(@, identifier, Append(minute, t[1])),
                                   !.hour_requests = DictSet(@, identifier, Append(hour, t[1])),
                                   !.day_requests = DictSet(@, identifier, Append(day, t[1]))],
                      returned |-> TRUE]

\* the instants (seconds) at which the callers' clock is read
Instants == {0, 59, 60, 3600, 3601, 86400, 86401}

\* the instant after `now`, or `now` at the end of the schedule
NextInstant(now) ==
    IF \E i \in Instants : i > now
    THEN CHOOSE i \in Instants : i > now /\ \A j \in Instants : j > now => i <= j
    ELSE now

\* what four successive calls of time.time() may read from `now` on: the
\* clock moves on by at most one second meanwhile
Readings(now) ==
    {t \in [1..4 -> {now, now + 1} \cap Instants] : t[1] = now /\ \A i \in 1..3 : t[i] <= t[i + 1]}

Identifiers == {"10.0.0.1", "10.0.0.2"}
Limits == {<<1, 2, 3>>, <<2, 2, 2>>}

\* the callers' notes: the times of the allowed calls so far, by identifier,
\* whether the clock ever moved during a call, and the last call (its
\* identifier, what it returned, the limiter before it)
RateLog(allowed, moved, identifier, returned, before) ==
    [op |-> "is_allowed", allowed |-> allowed, moved |-> moved, identifier |-> identifier,
     returned |-> returned, before |-> before]

\* time passes between two requests
Sleep ==
    /\ NextInstant(clock) > clock
    /\ clock' = NextInstant(clock)
    /\ UNCHANGED <<engine, input, result, memo, council, insights, pen, agg, tasks, heap>>

\* allowed, _ = limiter.is_allowed(identifier)
IsAllowed ==
    \E identifier \in Identifiers, t \in Readings(clock) :
        LET r == is_allowed(heap, identifier, t)
        IN  /\ heap' = r.self
            /\ clock' = t[4]
            /\ agg' = RateLog(IF r.returned
                               THEN [agg.allowed EXCEPT ![identifier] = Append(@, t[1])]
                               ELSE agg.allowed,
                               agg.moved \/ t[4] # t[1], identifier, r.returned, heap)
            /\ UNCHANGED <<engine, input, result, memo, council, insights, pen, tasks>>

InitRate ==
    /\ InitAssessmentIdle
    /\ agg = RateLog([i \in Identifiers |-> << >>], FALSE, "None", FALSE, NoHeap)
    /\ tasks = NoTasks
    /\ clock = 0
    /\ heap \in {RateLimiter(l[1], l[2], l[3]) : l \in Limits}

NextRate == Sleep \/ IsAllowed

SpecRate == InitRate /\ [][NextRate]_vars

\* the allowed calls of an identifier within (t - window, t]
AllowedWithin(identifier, t, window) ==
    Cardinality({i \in 1..Len(agg.allowed[identifier]) :
                    /\ agg.allowed[identifier][i] > t - window
                    /\ agg.allowed[identifier][i] <= t})

\* no window that ends at an instant holds more allowed calls than its limit
WindowsHold ==
    \A identifier \in Identifiers, t \in Instants :
        /\ AllowedWithin(identifier, t, 60) <= heap.requests_per_minute
        /\ AllowedWithin(identifier, t, 3600) <= heap.requests_per_hour
        /\ AllowedWithin(identifier, t, 86400) <= heap.requests_per_day

\* the timestamps the limiter holds for an identifier, by window
Recorded(self, identifier) ==
    <<Range(GetList(self.minute_requests, identifier)),
      Range(GetList(self.hour_requests, identifier)),
      Range(GetList(self.day_requests, identifier))>>

\* a denied call added no timestamp, and no call touched another identifier
DeniedRecordsNothing ==
    agg.identifier # "None" =>
        /\ ~agg.returned =>
              \A w \in 1..3 : Recorded(heap, agg.identifier)[w] \subseteq Recorded(agg.before, agg.identifier)[w]
        /\ \A other \in Identifiers \ {agg.identifier} :
              /\ Recorded(heap, other) = Recorded(agg.before, other)
              /\ GetList(heap.minute_requests, other) = GetList(agg.before.minute_requests, other)

\* C28 (as stated): for every identifier and every time t the allowed calls
\* within (t - 60 s, t] are at most requests_per_minute, likewise for the hour
\* and the day; a denied call records no timestamp; identifiers do not affect
\* each other.
C28_WindowsNeverExceeded == WindowsHold /\ DeniedRecordsNothing

\* the same while time.time() read the same instant throughout every call
C28_WindowsHoldOnSteadyClock == ~agg.moved => (WindowsHold /\ DeniedRecordsNothing)

-----------------------------------------------------------------------------
(* api/websocket.py: WebSocketManager *)

\* WebSocketManager(). The dict active_connections is held as CPython holds
\* it: the entries in insertion order, a deleted entry staying in place as a
\* dummy (live = FALSE). sockets[w] is the client_state of the w-th WebSocket.
WebSocketManager == [active_connections |-> << >>, sockets |-> << >>]

\* the live entries of a dict, len(d), and the entry of a key (0: not in d)
LiveEntries(d) == {i \in 1..Len(d) : d[i].live}
DictLen(d) == Cardinality(LiveEntries(d))
EntryOf(d, key) ==
    IF \E i \in LiveEntries(d) : d[i].connection_id = key
    THEN CHOOSE i \in LiveEntries(d) : d[i].connection_id = key
    ELSE 0

\* connect(websocket, connection_id), after websocket.accept() returned
connect(self, websocket, connection_id) ==
    LET i == EntryOf(self.active_connections, connection_id)
    IN  IF i # 0 THEN [self EXCEPT !.active_connections[i].websocket = websocket]
        ELSE [self EXCEPT !.active_connections =
                 Append(@, [connection_id |-> connection_id, websocket |-> websocket, live |-> TRUE])]

\* disconnect(connection_id)
disconnect(self, connection_id) ==
    LET i == EntryOf(self.active_connections, connection_id)
    IN  IF i # 0 THEN [self EXCEPT !.active_connections[i].live = FALSE] ELSE self

\* `for connection_id in disconnected: self.disconnect(connection_id)`
RECURSIVE DisconnectAll(_, _)
DisconnectAll(self, disconnected) ==
    IF disconnected = << >> THEN self
    ELSE DisconnectAll(disconnect(self, Head(disconnected)), Tail(disconnected))

\* the broadcast coroutine before it is called: its local variables, the
\* position and the size its dict iterator remembers, and for the record the
\* sockets the message went to (sent), those that failed or were not CONNECTED
\* (bad), and which connections connect()/disconnect() touched while the
\* coroutine was suspended (during)
NewBroadcast ==
    [pc |-> "new", exclude |-> << >>, di_used |-> 0, di_pos |-> 1, sent_count |-> 0,
     disconnected |-> << >>, connection_id |-> "None", websocket |-> 0, returned |-> 0,
     sent |-> << >>, bad |-> {}, during |-> "none"]

\* broadcast from the head of its for loop up to the next `await
\* websocket.send_json(message)`, or to its return or its exception
RECURSIVE RunLoop(_, _)
RunLoop(self, co) ==
    LET d == self.active_connections
        rest == {i \in LiveEntries(d) : i >= co.di_pos}
    IN  IF DictLen(d) # co.di_used
        THEN [self |-> self, co |-> [co EXCEPT !.pc = "RuntimeError"]]
        ELSE IF rest = {}
             THEN [self |-> DisconnectAll(self, co.disconnected),
                   co |-> [co EXCEPT !.pc = "done", !.returned = co.sent_count]]
        ELSE LET i == CHOOSE i \in rest : \A j \in rest : i <= j
                 step == [co EXCEPT !.di_pos = i + 1, !.connection_id = d[i].connection_id,
                                    !.websocket = d[i].websocket]
             IN  IF d[i].connection_id \in Range(co.exclude) THEN RunLoop(self, step)
                 ELSE IF self.sockets[d[i].websocket] = "CONNECTED"
                      THEN [self |-> self, co |-> [step EXCEPT !.pc = "send_json"]]
                 ELSE RunLoop(self, [step EXCEPT
                                        !.disconnected = Append(@, d[i].connection_id),
                                        !.bad = @ \cup {d[i].websocket}])

\* the WebSocket objects one process accepts
MaxSockets == 3

ConnectionIds == {"a", "b"}

\* a coroutine calls manager.broadcast(message, exclude)
Broadcast ==
    /\ tasks[1].pc = "new"
    /\ \E exclude \in {<< >>, <<"a">>} :
          LET r == RunLoop(heap, [tasks[1] EXCEPT !.exclude = exclude,
                                     !.di_used = DictLen(heap.active_connections)])
          IN  /\ heap' = r.self
              /\ tasks' = <<r.co>>
    /\ UNCHANGED <<engine, input, result, memo, council, insights, pen, agg, clock>>

\* websocket.send_json(message) returns, or raises an Exception, and
\* broadcast runs on
SendJson ==
    /\ tasks[1].pc = "send_json"
    /\ \E sent \in BOOLEAN :
          LET co == tasks[1]
              resumed == IF sent
                         THEN [co EXCEPT !.sent_count = @ + 1, !.sent = Append(@, co.websocket)]
                         ELSE [co EXCEPT !.disconnected = Append(@, co.connection_id),
                                         !.bad = @ \cup {co.websocket}]
              r == RunLoop(heap, resumed)
          IN  /\ heap' = r.self
              /\ tasks' = <<r.co>>
    /\ UNCHANGED <<engine, input, result, memo, council, insights, pen, agg, clock>>

\* what the broadcast coroutine notes when another coroutine touches the
\* connection connection_id
Touched(co, connection_id) ==
    IF co.pc # "send_json" THEN co
    ELSE IF connection_id = co.connection_id THEN [co EXCEPT !.during = "own"]
    ELSE IF co.during = "none" THEN [co EXCEPT !.during = "others"]
    ELSE co

\* another coroutine: await manager.connect(WebSocket(...), connection_id)
Connect ==
    /\ Len(heap.sockets) < MaxSockets
    /\ \E connection_id \in ConnectionIds :
          /\ heap' = [connect(heap, Len(heap.sockets) + 1, connection_id)
                        EXCEPT !.sockets = Append(@, "CONNECTED")]
          /\ tasks' = <<Touched(tasks[1], connection_id)>>
    /\ UNCHANGED <<engine, input, result, memo, council, insights, pen, agg, clock>>

\* another coroutine: manager.disconnect(connection_id)
Disconnect ==
    /\ \E connection_id \in ConnectionIds :
          /\ EntryOf(heap.active_connections, connection_id) # 0
          /\ heap' = disconnect(heap, connection_id)
          /\ tasks' = <<Touched(tasks[1], connection_id)>>
    /\ UNCHANGED <<engine, input, result, memo, council, insights, pen, agg, clock>>

\* the peer of a socket goes away: its client_state is no longer CONNECTED
Close ==
    /\ \E w \in DOMAIN heap.sockets :
          /\ heap.sockets[w] = "CONNECTED"
          /\ heap' = [heap EXCEPT !.sockets[w] = "DISCONNECTED"]
    /\ UNCHANGED <<engine, input, result, memo, council, insights, pen, agg, tasks, clock>>

InitSockets ==
    /\ InitAssessmentIdle
    /\ agg = AggIdle
    /\ tasks = <<NewBroadcast>>
    /\ clock = 0
    /\ heap = WebSocketManager

NextSockets == Broadcast \/ SendJson \/ Connect \/ Disconnect \/ Close

SpecSockets == InitSockets /\ [][NextSockets]_vars

\* a broadcast that returned gave the number of sockets the message went to,
\* and left no socket registered whose send failed or that was not CONNECTED
ReturnedRight(co) ==
    /\ co.returned = Len(co.sent)
    /\ \A i \in LiveEntries(heap.active_connections) :
          heap.active_connections[i].websocket \notin co.bad

\* C29 (as stated): broadcast completes without error, returns the number of
\* connections the message was sent to and leaves no connection registered
\* whose send failed or that was not CONNECTED, also when connect() or
\* disconnect() ran for other connections while it awaited a send.
C29_BroadcastSurvivesChanges ==
    (tasks[1].pc \in {"done", "RuntimeError"} /\ tasks[1].during # "own") =>
        (tasks[1].pc = "done" /\ ReturnedRight(tasks[1]))

\* the same for the broadcasts during which nothing connected or disconnected
C29_QuietBroadcast ==
    (tasks[1].pc \in {"done", "RuntimeError"} /\ tasks[1].during = "none") =>
        (tasks[1].pc = "done" /\ ReturnedRight(tasks[1]))

\* every broadcast that returned at all returned right
C29_ReturnedBroadcast == tasks[1].pc = "done" => ReturnedRight(tasks[1])
====
